---- MODULE Spec2Model ----
(***************************************************************************)
(* The Azure AI Search vector adapter (AzureAISearchVector) as a state     *)
(* machine.  The backend search service is the environment: every backend  *)
(* call (search, uploadDocuments, mergeDocuments, deleteDocuments, and the *)
(* index calls createOrUpdateIndex, getIndex, deleteIndex) takes effect    *)
(* atomically                                                              *)
(* at the step that delivers its response, and a call that is rejected     *)
(* leaves the index untouched.  An adapter operation is a sequence of such *)
(* steps, one per `await`; the code between two awaits runs in one step.   *)
(* The result parser of the document processor (parseAnalyzeResult) is a   *)
(* pure function and is modelled as an operator that one step applies.     *)
(***************************************************************************)
EXTENDS Integers, Sequences, FiniteSets, TLC

(* ------------------------------ bounds -------------------------------- *)
\* Largest number of vectors (or ids) handed to one call.
MaxVectors == 5

\* Largest number of pages of a raw analysis result.
MaxPages == 2
\* Largest number of cells reported for one table.
MaxCells == 2

(* ------------------------- program constants -------------------------- *)
\* batchSize of upsert (1000 in the source), scaled.
UpsertBatchSize == 2
\* batchSize of deleteVectors (1000 in the source), scaled.
DeleteBatchSize == 2
\* topK of the filter-resolution query (10000 in the source), scaled so
\* that, as in the source, it is larger than one batch.
FilterTopK == 3
\* Length of the dummy query vector (1536 in the source), scaled.
DummyVectorLength == 2
\* Default topK of query (10 in the source), scaled so that an index can
\* hold more records than a query without topK asks for.
DefaultTopK == 4

(* ------------------------------ values -------------------------------- *)
\* JavaScript undefined, where a string is expected.
Undefined == "<undefined>"
\* An absent optional parameter.
Absent == [t |-> "undefined"]
JsStr(s) == [t |-> "string", s |-> s]
JsObj(odata) == [t |-> "object", odata |-> odata]
JsArr(a) == [t |-> "array", a |-> a]
JsNum(n) == [t |-> "number", n |-> n]

\* if (v) ...
Truthy(v) ==
    CASE v.t = "undefined" -> FALSE
      [] v.t = "string"    -> v.s # ""
      [] OTHER             -> TRUE

\* String(v)
JsString(v) ==
    CASE v.t = "undefined" -> "undefined"
      [] v.t = "string"    -> v.s
      [] OTHER             -> "[object Object]"

IndexNames == {"documents"}
ExplicitIds == {"a", "b"}
\* Ids of the records an index may hold before the modelled calls start.
ExistingIds == <<"a", "b", "c", "d", "e">>
\* Vector dimensions of the modelled indexes.
Dimensions == {DummyVectorLength, DummyVectorLength + 1}

\* A generator that hands out one identifier again and again.
UuidRepeated(n) == "uuid-1"

\* crypto.randomUUID(): the n-th identifier generated, distinct from every
\* other generated identifier and from every caller-chosen id.
Uuid(n) == "uuid-" \o ToString(n)

Vector(len, x) == [k \in 1..len |-> x]
\* new Array(1536).fill(0)
DummyVector == Vector(DummyVectorLength, 0)

EmptyMeta == [k \in {} |-> ""]

\* A serialization that writes an empty object whatever it is given.
JSONStringifyEmpty(meta) == [json |-> EmptyMeta]

\* JSON.stringify(meta): properties whose value is undefined are left out.
JSONStringify(meta) ==
    [json |-> [k \in {k \in DOMAIN meta : meta[k] # Undefined} |-> meta[k]]]

Min(a, b) == IF a < b THEN a ELSE b

\* A slice that takes the element at `to` as well.
SliceInclusive(s, from, to) == SubSeq(s, from + 1, Min(to + 1, Len(s)))

\* Array.prototype.slice(from, to) on a sequence, 0-based and end-exclusive.
Slice(s, from, to) == SubSeq(s, from + 1, Min(to, Len(s)))

Range(s) == {s[k] : k \in DOMAIN s}

(* --------------------------- program state ---------------------------- *)
VARIABLES
    indexes,        \* the backend: index name -> [exists, dimension, metric,
                    \* docs]
    searchClients,  \* this.searchClients: the index names with a cached handle
    nextUuid,       \* number of identifiers crypto.randomUUID() has produced
    call,           \* caller -> the adapter call it has in flight
    trace,          \* caller -> the backend requests its call got answered
    before          \* caller -> the backend as it was when the call was made

vars == <<indexes, searchClients, nextUuid, call, trace, before>>

Callers == {"c1", "c2", "c3"}

(* ------------------------ the search backend -------------------------- *)
\* OData expressions the backend can evaluate.  The index schema makes id
\* the only filterable field, so a valid filter is a predicate on the id.
ValidOData == {"id eq 'a'", "id ne 'a'"}

ODataMatches(expr, id) ==
    CASE expr = "id eq 'a'" -> id = "a"
      [] expr = "id ne 'a'" -> id # "a"
      [] OTHER              -> FALSE

Ok(v) == [ok |-> TRUE, value |-> v]
Fail(e) == [ok |-> FALSE, error |-> e]

\* The ids of the records of idx that satisfy the filter (all, without one).
Matching(idx, odata) ==
    {id \in DOMAIN idx.docs : odata = Undefined \/ ODataMatches(odata, id)}

\* searchClient.search("*", {vectorSearchOptions, filter, top, select}),
\* drained: the ways the backend can answer.  Of more than `top` matching
\* records any `top` may be returned.
SearchOutcomes(idx, vector, top, odata) ==
    {Fail("TransportFailure")} \cup
    ( IF ~idx.exists THEN {Fail("NotFound")}
      ELSE IF Len(vector) # idx.dimension THEN {Fail("SchemaMismatch")}
      ELSE IF odata # Undefined /\ odata \notin ValidOData
           THEN {Fail("InvalidFilter")}
      ELSE LET m == Matching(idx, odata)
               n == Min(top, Cardinality(m))
           IN  {Ok(S) : S \in {T \in SUBSET m : Cardinality(T) = n}} )

\* The record the backend keeps for an uploaded document.
Stored(d) == [vector |-> d.vector, metadata |-> d.metadata, text |-> d.text]

\* The index after an accepted uploadDocuments(batch): upload replaces a
\* record with the same key; of two documents with one key the later wins.
Uploaded(idx, batch) ==
    LET ids == {batch[k].id : k \in DOMAIN batch}
        last(id) == CHOOSE k \in DOMAIN batch :
                        /\ batch[k].id = id
                        /\ \A j \in DOMAIN batch : batch[j].id = id => j <= k
    IN  [idx EXCEPT !.docs =
            [id \in DOMAIN idx.docs \cup ids |->
                IF id \in ids THEN Stored(batch[last(id)]) ELSE idx.docs[id]]]

\* searchClient.uploadDocuments(batch): the ways the backend can answer.
UploadOutcomes(idx, batch) ==
    {Fail("TransportFailure")} \cup
    ( IF ~idx.exists THEN {Fail("NotFound")}
      ELSE IF \E k \in DOMAIN batch : Len(batch[k].vector) # idx.dimension
           THEN {Fail("SchemaMismatch")}
      ELSE {Ok(Uploaded(idx, batch))} )

\* The index after an accepted deleteDocuments of the keys in ids.
Deleted(idx, ids) ==
    [idx EXCEPT !.docs = [id \in DOMAIN idx.docs \ ids |-> idx.docs[id]]]

\* searchClient.deleteDocuments(documents): the ways the backend can answer.
DeleteOutcomes(idx, ids) ==
    {Fail("TransportFailure")} \cup
    ( IF ~idx.exists THEN {Fail("NotFound")} ELSE {Ok(Deleted(idx, ids))} )

NoDocs == [id \in {} |-> 0]

\* The index the backend holds after it accepted the SearchIndex `index`: a
\* new index is empty, an index updated with the dimension it had keeps its
\* records, and one whose vector field changes dimension is rebuilt empty.
CreatedOrUpdated(idx, index) ==
    [exists |-> TRUE, dimension |-> index.dimension, metric |-> index.metric,
     docs |-> IF idx.exists /\ idx.dimension = index.dimension
              THEN idx.docs ELSE NoDocs]

\* indexClient.createOrUpdateIndex(index): the ways the backend can answer.
\* A change to the schema of an existing index may be refused.
CreateOrUpdateOutcomes(idx, index) ==
    {Fail("TransportFailure"), Ok(CreatedOrUpdated(idx, index))} \cup
    ( IF /\ idx.exists
         /\ <<idx.dimension, idx.metric>> # <<index.dimension, index.metric>>
      THEN {Fail("InvalidRequest")} ELSE {} )

\* indexClient.getIndex(indexName): the schema, or NotFound.
GetIndexOutcomes(idx) ==
    {Fail("TransportFailure")} \cup
    ( IF ~idx.exists THEN {Fail("NotFound")}
      ELSE {Ok([vectorSearchDimensions |-> idx.dimension,
                metric |-> idx.metric])} )

\* A deleteIndex that is acknowledged and leaves the index where it is.
DeleteIndexOutcomesLeavingIndex(idx) ==
    {Fail("TransportFailure")} \cup
    ( IF ~idx.exists THEN {Fail("NotFound")} ELSE {Ok(idx)} )

\* indexClient.deleteIndex(indexName): the index and its records are gone.
DeleteIndexOutcomes(idx) ==
    {Fail("TransportFailure")} \cup
    ( IF ~idx.exists THEN {Fail("NotFound")}
      ELSE {Ok([exists |-> FALSE, dimension |-> 0, metric |-> "cosine",
                docs |-> NoDocs])} )

\* searchClient.getDocumentsCount()
CountOutcomes(idx) ==
    {Fail("TransportFailure")} \cup
    ( IF ~idx.exists THEN {Fail("NotFound")}
      ELSE {Ok(Cardinality(DOMAIN idx.docs))} )

\* A stored record after a merge of the fields given: a field that the
\* merged document does not carry keeps its value.
MergedRecord(old, fields) ==
    [f \in DOMAIN old |-> IF f \in DOMAIN fields THEN fields[f] ELSE old[f]]

\* The index after an accepted mergeDocuments(documents).
Merged(idx, documents) ==
    [idx EXCEPT !.docs =
        [id \in DOMAIN idx.docs |->
            IF \E d \in documents : d.id = id
            THEN MergedRecord(idx.docs[id],
                              (CHOOSE d \in documents : d.id = id).fields)
            ELSE idx.docs[id]]]

\* searchClient.mergeDocuments(documents): the ways the backend can answer.
\* Merge needs every key to exist, and a vector of the index's dimension.
MergeOutcomes(idx, documents) ==
    {Fail("TransportFailure")} \cup
    ( IF ~idx.exists THEN {Fail("NotFound")}
      ELSE IF \E d \in documents : d.id \notin DOMAIN idx.docs
           THEN {Fail("NotFound")}
      ELSE IF \E d \in documents :
                 /\ "vector" \in DOMAIN d.fields
                 /\ Len(d.fields["vector"]) # idx.dimension
           THEN {Fail("SchemaMismatch")}
      ELSE {Ok(Merged(idx, documents))} )

(* -------------------------- adapter helpers --------------------------- *)
\* getSearchClient(indexName): the cache after the call.
getSearchClient(cache, indexName) == cache \cup {indexName}

\* ids?.[i], i counted from 1.
IdAt(ids, k) ==
    IF ids.t = "array" /\ k \in DOMAIN ids.a THEN ids.a[k] ELSE Undefined

\* metadata[i] ?? {}, i counted from 1.
MetaAt(metadata, k) ==
    IF k \in DOMAIN metadata /\ metadata[k] # Absent
    THEN metadata[k] ELSE EmptyMeta

\* (meta).text ?? ""
TextOf(meta) ==
    IF "text" \in DOMAIN meta /\ meta["text"] # Undefined
    THEN meta["text"] ELSE ""

\* Positions 1..k of the input that get a generated id.
FreshUpTo(p, k) == {j \in 1..k : IdAt(p.ids, j) = Undefined}

\* Documents whose ids are all generated, whatever ids the caller gave.
PrepareDocumentsIgnoringIds(p, next) ==
    [k \in 1..Len(p.vectors) |->
        LET meta == MetaAt(p.metadata, k)
        IN  [id       |-> Uuid(next + k),
             vector   |-> p.vectors[k],
             metadata |-> JSONStringify(meta),
             text     |-> TextOf(meta)]]

\* vectors.map((vector, i) => ({id, vector, metadata, text})), with `next`
\* identifiers generated before.
PrepareDocuments(p, next) ==
    [k \in 1..Len(p.vectors) |->
        LET meta == MetaAt(p.metadata, k)
        IN  [id       |-> IF IdAt(p.ids, k) # Undefined
                          THEN IdAt(p.ids, k)
                          ELSE Uuid(next + Cardinality(FreshUpTo(p, k))),
             vector   |-> p.vectors[k],
             metadata |-> JSONStringify(meta),
             text     |-> TextOf(meta)]]

DocIds(docs) == [k \in DOMAIN docs |-> docs[k].id]

\* The filter deleteVectors works with: its own parameter, or the one upsert
\* builds from deleteFilter, { odata: String(deleteFilter) }.
DvFilter(r) ==
    IF r.op = "upsert" THEN JsObj(JsString(r.params.deleteFilter))
    ELSE r.params.filter

\* A query that does not forward its filter.
ODataOfDropped(filter) == Undefined

\* query: if (filter?.odata) odataFilter = filter.odata
ODataOf(filter) ==
    IF filter.t = "object" /\ filter.odata \notin {Undefined, ""}
    THEN filter.odata ELSE Undefined

\* staleClient tells of the SearchClient in the local variable searchClient of
\* the call that it is not the object the cache holds for the index name.
IdleCall ==
    [pc |-> "idle", op |-> "none", params |-> Absent, documents |-> <<>>,
     i |-> 0, uploadedIds |-> <<>>, results |-> {}, index |-> Absent,
     staleClient |-> FALSE, outcome |-> Absent]

\* The call r awaits a request it made through the SearchClient in its local
\* variable: const searchClient = this.getSearchClient(indexName).
HoldsClient(r) ==
    r.pc \in {"dv.search", "dv.delete", "dv.batch", "upload", "query.search",
              "uv.search", "uv.merge", "d1.delete", "di.count"}

\* The calls after this.searchClients.delete(indexName): a call in flight
\* that took its SearchClient of the index from the cache goes on with an
\* object that the cache no longer holds.
Dropped(calls, indexName) ==
    [d \in DOMAIN calls |->
        IF HoldsClient(calls[d]) /\ calls[d].params.indexName = indexName
        THEN [calls[d] EXCEPT !.staleClient = TRUE] ELSE calls[d]]

\* The call has returned v to its caller.
Returned(r, v) == [r EXCEPT !.pc = "done", !.outcome = Ok(v)]

\* A failure that is caught: the call returns the ids uploaded so far.
ThrownCaught(r, e) == Returned(r, r.uploadedIds)

\* A failure that is swallowed: the call returns as if nothing had happened.
ThrownSuppressed(r, e) == Returned(r, Undefined)

\* A failure answered by making the request again.
ThrownRetried(r, e) == r

\* The call has thrown e to its caller: a rejected promise carries the
\* backend's error and nothing else.
Thrown(r, e) == [r EXCEPT !.pc = "done", !.outcome = Fail(e)]

\* JSON.parse of a payload JSON.stringify produced.
JSONParse(payload) == payload.json

\* A deserialization that hands on a payload it cannot read.
ParseMetadataKeepingRaw(payload) ==
    IF "json" \in DOMAIN payload THEN JSONParse(payload) ELSE payload

\* query: let metadata = {}; try { if (doc.metadata && typeof doc.metadata
\* === "string") metadata = JSON.parse(doc.metadata) } catch {}.  A payload
\* is either [json |-> m], the JSON text of m, or [raw |-> s], the string s
\* that is not JSON (JSON.parse throws) or is empty.
ParseMetadata(payload) ==
    IF "json" \in DOMAIN payload THEN JSONParse(payload) ELSE EmptyMeta

\* The QueryResult query builds for the hit with key id.
QueryResult(idx, id, includeVector) ==
    LET doc == idx.docs[id]
        parsed == ParseMetadata(doc.metadata)
    IN  [id       |-> id,
         metadata |-> IF doc.text # ""
                      THEN [k \in DOMAIN parsed \cup {"text"} |->
                               IF k = "text" THEN doc.text ELSE parsed[k]]
                      ELSE parsed,
         vector   |-> IF includeVector THEN doc.vector ELSE <<>>]

QueryResults(idx, hits, includeVector) ==
    {QueryResult(idx, id, includeVector) : id \in hits}

ResultIds(results) == {q.id : q \in results}

\* A test that takes an empty collection for a non-empty one.
NonEmptyAlways(collection) == TRUE

\* if (results.length > 0), if (documents.length > 0)
NonEmpty(collection) == Cardinality(collection) > 0

\* A metric mapping that knows cosine only.
mapMetricCosineOnly(metric) == "cosine"

\* mapMetric(metric): the adapter's metric in the backend's spelling.
mapMetric(metric) ==
    CASE metric = "euclidean"  -> "euclidean"
      [] metric = "dotproduct" -> "dotProduct"
      [] OTHER                 -> "cosine"

\* createIndex: const { indexName, dimension, metric = "cosine" } = params,
\* and the SearchIndex built from them.
SearchIndexOf(p) ==
    [name      |-> p.indexName,
     dimension |-> p.dimension,
     metric    |-> mapMetric(IF p.metric = Undefined THEN "cosine"
                             ELSE p.metric)]

\* describeIndex: the metric of the first algorithm, in the adapter's
\* spelling; cosine unless it is euclidean or dotProduct.
DescribedMetric(index) ==
    CASE index.metric = "euclidean"  -> "euclidean"
      [] index.metric = "dotProduct" -> "dotproduct"
      [] OTHER                       -> "cosine"

\* Stats with a count that was not asked for.
IndexStatsUncounted(index, countResult) ==
    [dimension |-> index.vectorSearchDimensions, count |-> 0,
     metric |-> DescribedMetric(index)]

\* describeIndex: return { dimension, count: countResult, metric }.
IndexStats(index, countResult) ==
    [dimension |-> index.vectorSearchDimensions, count |-> countResult,
     metric |-> DescribedMetric(index)]

\* if (update.metadata.text)
HasText(meta) == "text" \in DOMAIN meta /\ meta["text"] \notin {Undefined, ""}

\* The fields a document of updateVector carries: the vector when one is
\* given, and with metadata its JSON text and, when withText, a text field.
UpdateFields(update, withText) ==
    LET keys == (IF update.vector # Absent THEN {"vector"} ELSE {}) \cup
                (IF update.metadata # Absent THEN {"metadata"} ELSE {}) \cup
                (IF update.metadata # Absent /\ withText
                 THEN {"text"} ELSE {})
    IN  [f \in keys |->
            CASE f = "vector"   -> update.vector.a
              [] f = "metadata" -> JSONStringify(update.metadata)
              [] f = "text"     -> TextOf(update.metadata)]

\* updateVector by id: document = { id }, plus vector, plus metadata, plus
\* text only if (update.metadata.text).
UpdateDocument(id, update) ==
    [id |-> id,
     fields |-> UpdateFields(update, update.metadata # Absent
                                     /\ HasText(update.metadata))]

\* updateVector by filter: { id: r.id, ...vector, ...{ metadata, text:
\* update.metadata.text ?? "" } } for each result r.
UpdateDocumentsByFilter(results, update) ==
    {[id |-> q.id, fields |-> UpdateFields(update, TRUE)] : q \in results}

\* Number of identifiers one upsert generates.
FreshNeeded(p) == Cardinality(FreshUpTo(p, Len(p.vectors)))

\* An upload loop that starts at the second batch.
BeginUploadAtSecondBatch(r, next) ==
    LET docs == PrepareDocuments(r.params, next)
        r1   == [r EXCEPT !.documents = docs, !.i = UpsertBatchSize,
                          !.uploadedIds = <<>>]
    IN  IF UpsertBatchSize < Len(docs) THEN [r1 EXCEPT !.pc = "upload"]
        ELSE Returned(r1, r1.uploadedIds)

\* upsert from "Prepare documents for upload" to its first upload batch (or
\* to its return, when there is nothing to upload).
BeginUpload(r, next) ==
    LET docs == PrepareDocuments(r.params, next)
        r1   == [r EXCEPT !.documents = docs, !.i = 0, !.uploadedIds = <<>>]
    IN  IF 0 < Len(docs) THEN [r1 EXCEPT !.pc = "upload"]
        ELSE Returned(r1, r1.uploadedIds)

\* A backend request and its answer: the keys it carried (for a search, the
\* keys returned), in order for a batch, and the error of a rejected one.
Entry(kind, o, ids, batch) ==
    [call |-> kind, ok |-> o.ok, ids |-> ids, batch |-> batch,
     error |-> IF o.ok THEN "" ELSE o.error]

Logged(c, e) == [trace EXCEPT ![c] = Append(@, e)]

(* ----------------------------- operations ----------------------------- *)
\* An upsert that starts its uploads without the filtered delete.
UpsertCallWithoutDelete(c, p) ==
    /\ call[c].pc = "idle"
    /\ searchClients' = getSearchClient(searchClients, p.indexName)
    /\ call' = [call EXCEPT ![c] =
           BeginUpload([IdleCall EXCEPT !.op = "upsert", !.params = p],
                       nextUuid)]
    /\ nextUuid' = nextUuid + FreshNeeded(p)
    /\ before' = [before EXCEPT ![c] = indexes]
    /\ UNCHANGED <<indexes, trace>>

\* upsert(p) up to its first await.
UpsertCall(c, p) ==
    /\ call[c].pc = "idle"
    /\ searchClients' = getSearchClient(searchClients, p.indexName)
    /\ LET r == [IdleCall EXCEPT !.op = "upsert", !.params = p]
       IN  IF Truthy(p.deleteFilter)
           THEN /\ call' = [call EXCEPT ![c] = [r EXCEPT !.pc = "dv.search"]]
                /\ UNCHANGED nextUuid
           ELSE /\ call' = [call EXCEPT ![c] = BeginUpload(r, nextUuid)]
                /\ nextUuid' = nextUuid + FreshNeeded(p)
    /\ before' = [before EXCEPT ![c] = indexes]
    /\ UNCHANGED <<indexes, trace>>

\* deleteVectors(p) up to its first await.
DeleteVectorsCall(c, p) ==
    /\ call[c].pc = "idle"
    /\ searchClients' = getSearchClient(searchClients, p.indexName)
    /\ LET r == [IdleCall EXCEPT !.op = "deleteVectors", !.params = p]
       IN  call' = [call EXCEPT ![c] =
               IF p.ids.t = "array" /\ Len(p.ids.a) > 0
               THEN [r EXCEPT !.pc = "dv.batch"]
               ELSE IF Truthy(p.filter)
               THEN [r EXCEPT !.pc = "dv.search"]
               ELSE Returned(r, Undefined)]
    /\ before' = [before EXCEPT ![c] = indexes]
    /\ UNCHANGED <<indexes, nextUuid, trace>>

\* deleteVectors is over for the call r of c: a deleteVectors call returns,
\* an upsert goes on to its uploads.
AfterDeleteVectors(c, r) ==
    IF r.op = "upsert"
    THEN /\ call' = [call EXCEPT ![c] = BeginUpload(r, nextUuid)]
         /\ nextUuid' = nextUuid + FreshNeeded(r.params)
    ELSE /\ call' = [call EXCEPT ![c] = Returned(r, Undefined)]
         /\ UNCHANGED nextUuid

\* A failure of the filtered delete that upsert goes on from, to its uploads.
DeleteVectorsRejectedIgnored(c, r, e) == AfterDeleteVectors(c, r)

\* A request of deleteVectors is rejected with e: nothing catches it, neither
\* in deleteVectors nor in an upsert that awaits it, and the call throws e.
DeleteVectorsRejected(c, r, e) ==
    /\ call' = [call EXCEPT ![c] = Thrown(r, e)]
    /\ UNCHANGED nextUuid

\* The filter-resolution query of deleteVectors is answered.
DvSearchResponse(c) ==
    /\ call[c].pc = "dv.search"
    /\ LET r   == call[c]
           idx == indexes[r.params.indexName]
       IN  \E o \in SearchOutcomes(idx, DummyVector, FilterTopK,
                                   ODataOf(DvFilter(r))) :
              /\ trace' = Logged(c, Entry("search", o,
                                 IF o.ok THEN o.value ELSE {}, <<>>))
              /\ IF ~o.ok
                 THEN DeleteVectorsRejected(c, r, o.error)
                 ELSE LET r1 == [r EXCEPT !.results =
                                    QueryResults(idx, o.value, FALSE)]
                      IN  IF NonEmpty(r1.results)
                          THEN /\ call' = [call EXCEPT ![c] =
                                              [r1 EXCEPT !.pc = "dv.delete"]]
                               /\ UNCHANGED nextUuid
                          ELSE AfterDeleteVectors(c, r1)
    /\ UNCHANGED <<indexes, searchClients, before>>

\* The bulk delete of the resolved ids is answered.
DvDeleteResponse(c) ==
    /\ call[c].pc = "dv.delete"
    /\ LET r    == call[c]
           name == r.params.indexName
           ids  == ResultIds(r.results)
       IN  \E o \in DeleteOutcomes(indexes[name], ids) :
              /\ trace' = Logged(c, Entry("deleteDocuments", o, ids, <<>>))
              /\ IF ~o.ok
                 THEN /\ DeleteVectorsRejected(c, r, o.error)
                      /\ UNCHANGED indexes
                 ELSE /\ indexes' = [indexes EXCEPT ![name] = o.value]
                      /\ AfterDeleteVectors(c, r)
    /\ UNCHANGED <<searchClients, before>>

\* A batch that is the whole id list each time.
DeleteBatchWhole(ids, i) == ids

\* ids.slice(i, i + batchSize)
DeleteBatch(ids, i) == Slice(ids, i, i + DeleteBatchSize)

\* One delete batch of the id-list path of deleteVectors is answered.
DvBatchResponse(c) ==
    /\ call[c].pc = "dv.batch"
    /\ LET r     == call[c]
           name  == r.params.indexName
           batch == DeleteBatch(r.params.ids.a, r.i)
       IN  \E o \in DeleteOutcomes(indexes[name], Range(batch)) :
              /\ trace' = Logged(c, Entry("deleteDocuments", o,
                                          Range(batch), batch))
              /\ IF ~o.ok
                 THEN /\ call' = [call EXCEPT ![c] = Thrown(r, o.error)]
                      /\ UNCHANGED indexes
                 ELSE /\ indexes' = [indexes EXCEPT ![name] = o.value]
                      /\ LET r1 == [r EXCEPT !.i = @ + DeleteBatchSize]
                         IN  call' = [call EXCEPT ![c] =
                                 IF r1.i < Len(r.params.ids.a) THEN r1
                                 ELSE Returned(r1, Undefined)]
    /\ UNCHANGED <<searchClients, nextUuid, before>>

\* A rejected upload answered by uploading again, as they were when the call
\* was made, the records the call's filtered delete removed.
UploadRejectedWithRollback(c, r, e) ==
    LET name == r.params.indexName
        old  == before[c][name].docs
        gone == DOMAIN old \ DOMAIN indexes[name].docs
    IN  /\ call' = [call EXCEPT ![c] = Thrown(r, e)]
        /\ indexes' = [indexes EXCEPT ![name].docs =
               [id \in DOMAIN @ \cup gone |->
                   IF id \in gone THEN old[id] ELSE @[id]]]

\* An upload batch of upsert is rejected with e: the loop is left, the call
\* throws e, and nothing is sent to the backend any more.
UploadRejected(c, r, e) ==
    /\ call' = [call EXCEPT ![c] = Thrown(r, e)]
    /\ UNCHANGED indexes

\* One upload batch of upsert is answered.
UploadResponse(c) ==
    /\ call[c].pc = "upload"
    /\ LET r     == call[c]
           name  == r.params.indexName
           batch == Slice(r.documents, r.i, r.i + UpsertBatchSize)
       IN  \E o \in UploadOutcomes(indexes[name], batch) :
              /\ trace' = Logged(c, Entry("uploadDocuments", o,
                                          Range(DocIds(batch)), DocIds(batch)))
              /\ IF ~o.ok
                 THEN UploadRejected(c, r, o.error)
                 ELSE /\ indexes' = [indexes EXCEPT ![name] = o.value]
                      /\ LET r1 == [r EXCEPT
                                       !.uploadedIds = @ \o DocIds(batch),
                                       !.i = @ + UpsertBatchSize]
                         IN  call' = [call EXCEPT ![c] =
                                 IF r1.i < Len(r.documents) THEN r1
                                 ELSE Returned(r1, r1.uploadedIds)]
    /\ UNCHANGED <<searchClients, nextUuid, before>>

\* query(p) up to its await of the search.
QueryCall(c, p) ==
    /\ call[c].pc = "idle"
    /\ searchClients' = getSearchClient(searchClients, p.indexName)
    /\ call' = [call EXCEPT ![c] =
                   [IdleCall EXCEPT !.op = "query", !.params = p,
                                    !.pc = "query.search"]]
    /\ before' = [before EXCEPT ![c] = indexes]
    /\ UNCHANGED <<indexes, nextUuid, trace>>

\* A topK that is the default also when one is given.
TopKOfDefault(p) == DefaultTopK

\* topK = 10 when not given.
TopKOf(p) == IF p.topK.t = "number" THEN p.topK.n ELSE DefaultTopK

\* The search of a query call is answered and its results are built.
QueryResponse(c) ==
    /\ call[c].pc = "query.search"
    /\ LET r   == call[c]
           p   == r.params
           idx == indexes[p.indexName]
       IN  \E o \in SearchOutcomes(idx, p.queryVector, TopKOf(p),
                                   ODataOf(p.filter)) :
              /\ trace' = Logged(c, Entry("search", o,
                                 IF o.ok THEN o.value ELSE {}, <<>>))
              /\ call' = [call EXCEPT ![c] =
                     IF ~o.ok THEN Thrown(r, o.error)
                     ELSE LET qr == QueryResults(idx, o.value, p.includeVector)
                          IN  Returned([r EXCEPT !.results = qr], qr)]
    /\ UNCHANGED <<indexes, searchClients, nextUuid, before>>

\* An invalidation that leaves the cached handle where it is.
InvalidatedNot(cache, indexName) == cache

\* this.searchClients.delete(indexName): the cache after the call.
Invalidated(cache, indexName) == cache \ {indexName}

\* createIndex(p) up to its await of createOrUpdateIndex.
CreateIndexCall(c, p) ==
    /\ call[c].pc = "idle"
    /\ call' = [call EXCEPT ![c] =
                   [IdleCall EXCEPT !.op = "createIndex", !.params = p,
                                    !.index = SearchIndexOf(p),
                                    !.pc = "ci.createOrUpdate"]]
    /\ before' = [before EXCEPT ![c] = indexes]
    /\ UNCHANGED <<indexes, searchClients, nextUuid, trace>>

\* createOrUpdateIndex is answered; after an accepted one the cached handle
\* of the index is dropped.
CreateIndexResponse(c) ==
    /\ call[c].pc = "ci.createOrUpdate"
    /\ LET r    == call[c]
           name == r.params.indexName
       IN  \E o \in CreateOrUpdateOutcomes(indexes[name], r.index) :
              /\ trace' = Logged(c, Entry("createOrUpdateIndex", o, {}, <<>>))
              /\ IF ~o.ok
                 THEN /\ call' = [call EXCEPT ![c] = Thrown(r, o.error)]
                      /\ UNCHANGED <<indexes, searchClients>>
                 ELSE /\ indexes' = [indexes EXCEPT ![name] = o.value]
                      /\ searchClients' = Invalidated(searchClients, name)
                      /\ call' = [Dropped(call, name) EXCEPT
                                     ![c] = Returned(r, Undefined)]
    /\ UNCHANGED <<nextUuid, before>>

\* A describeIndex that takes the handle of the index before it asks for
\* the schema.
DescribeIndexCallTakingClient(c, p) ==
    /\ call[c].pc = "idle"
    /\ call' = [call EXCEPT ![c] =
                   [IdleCall EXCEPT !.op = "describeIndex", !.params = p,
                                    !.pc = "di.getIndex"]]
    /\ searchClients' = getSearchClient(searchClients, p.indexName)
    /\ before' = [before EXCEPT ![c] = indexes]
    /\ UNCHANGED <<indexes, nextUuid, trace>>

\* describeIndex(p) up to its await of getIndex.
DescribeIndexCall(c, p) ==
    /\ call[c].pc = "idle"
    /\ call' = [call EXCEPT ![c] =
                   [IdleCall EXCEPT !.op = "describeIndex", !.params = p,
                                    !.pc = "di.getIndex"]]
    /\ before' = [before EXCEPT ![c] = indexes]
    /\ UNCHANGED <<indexes, searchClients, nextUuid, trace>>

\* getIndex is answered; describeIndex takes the handle of the index and
\* asks for the document count.
DescribeGetIndexResponse(c) ==
    /\ call[c].pc = "di.getIndex"
    /\ LET r    == call[c]
           name == r.params.indexName
       IN  \E o \in GetIndexOutcomes(indexes[name]) :
              /\ trace' = Logged(c, Entry("getIndex", o, {}, <<>>))
              /\ IF ~o.ok
                 THEN /\ call' = [call EXCEPT ![c] = Thrown(r, o.error)]
                      /\ UNCHANGED searchClients
                 ELSE /\ call' = [call EXCEPT ![c] =
                             [r EXCEPT !.index = o.value, !.pc = "di.count"]]
                      /\ searchClients' = getSearchClient(searchClients, name)
    /\ UNCHANGED <<indexes, nextUuid, before>>

\* getDocumentsCount is answered and describeIndex returns the stats.
DescribeCountResponse(c) ==
    /\ call[c].pc = "di.count"
    /\ LET r == call[c]
       IN  \E o \in CountOutcomes(indexes[r.params.indexName]) :
              /\ trace' = Logged(c, Entry("getDocumentsCount", o, {}, <<>>))
              /\ call' = [call EXCEPT ![c] =
                     IF ~o.ok THEN Thrown(r, o.error)
                     ELSE Returned(r, IndexStats(r.index, o.value))]
    /\ UNCHANGED <<indexes, searchClients, nextUuid, before>>

\* deleteIndex(p) up to its await of the backend's deleteIndex.
DeleteIndexCall(c, p) ==
    /\ call[c].pc = "idle"
    /\ call' = [call EXCEPT ![c] =
                   [IdleCall EXCEPT !.op = "deleteIndex", !.params = p,
                                    !.pc = "xi.delete"]]
    /\ before' = [before EXCEPT ![c] = indexes]
    /\ UNCHANGED <<indexes, searchClients, nextUuid, trace>>

\* The backend's deleteIndex is answered; after an accepted one the cached
\* handle of the index is dropped.
DeleteIndexResponse(c) ==
    /\ call[c].pc = "xi.delete"
    /\ LET r    == call[c]
           name == r.params.indexName
       IN  \E o \in DeleteIndexOutcomes(indexes[name]) :
              /\ trace' = Logged(c, Entry("deleteIndex", o, {}, <<>>))
              /\ IF ~o.ok
                 THEN /\ call' = [call EXCEPT ![c] = Thrown(r, o.error)]
                      /\ UNCHANGED <<indexes, searchClients>>
                 ELSE /\ indexes' = [indexes EXCEPT ![name] = o.value]
                      /\ searchClients' = Invalidated(searchClients, name)
                      /\ call' = [Dropped(call, name) EXCEPT
                                     ![c] = Returned(r, Undefined)]
    /\ UNCHANGED <<nextUuid, before>>

\* updateVector(p) up to its first await: by id when an id is given, else by
\* filter when a filter is given, else nothing at all.
UpdateVectorCall(c, p) ==
    /\ call[c].pc = "idle"
    /\ LET r == [IdleCall EXCEPT !.op = "updateVector", !.params = p]
       IN  IF Truthy(p.id)
           THEN /\ searchClients' = getSearchClient(searchClients, p.indexName)
                /\ call' = [call EXCEPT ![c] =
                       [r EXCEPT !.documents = {UpdateDocument(p.id.s, p.update)},
                                 !.pc = "uv.merge"]]
           ELSE IF Truthy(p.filter)
           THEN /\ searchClients' = getSearchClient(searchClients, p.indexName)
                /\ call' = [call EXCEPT ![c] = [r EXCEPT !.pc = "uv.search"]]
           ELSE /\ call' = [call EXCEPT ![c] = Returned(r, Undefined)]
                /\ UNCHANGED searchClients
    /\ before' = [before EXCEPT ![c] = indexes]
    /\ UNCHANGED <<indexes, nextUuid, trace>>

\* The filter-resolution query of updateVector is answered: one document
\* per result, merged in one request if there is any.
UvSearchResponse(c) ==
    /\ call[c].pc = "uv.search"
    /\ LET r   == call[c]
           p   == r.params
           idx == indexes[p.indexName]
       IN  \E o \in SearchOutcomes(idx, DummyVector, FilterTopK,
                                   ODataOf(p.filter)) :
              /\ trace' = Logged(c, Entry("search", o,
                                 IF o.ok THEN o.value ELSE {}, <<>>))
              /\ IF ~o.ok
                 THEN /\ call' = [call EXCEPT ![c] = Thrown(r, o.error)]
                      /\ UNCHANGED searchClients
                 ELSE LET qr == QueryResults(idx, o.value, FALSE)
                          r1 == [r EXCEPT !.results = qr, !.documents =
                                    UpdateDocumentsByFilter(qr, p.update),
                                    !.staleClient = FALSE]
                      IN  /\ searchClients' =
                                getSearchClient(searchClients, p.indexName)
                          /\ call' = [call EXCEPT ![c] =
                                 IF NonEmpty(r1.documents)
                                 THEN [r1 EXCEPT !.pc = "uv.merge"]
                                 ELSE Returned(r1, Undefined)]
    /\ UNCHANGED <<indexes, nextUuid, before>>

\* The mergeDocuments request of updateVector is answered.
UvMergeResponse(c) ==
    /\ call[c].pc = "uv.merge"
    /\ LET r    == call[c]
           name == r.params.indexName
       IN  \E o \in MergeOutcomes(indexes[name], r.documents) :
              /\ trace' = Logged(c, Entry("mergeDocuments", o,
                                          {d.id : d \in r.documents}, <<>>))
              /\ IF ~o.ok
                 THEN /\ call' = [call EXCEPT ![c] = Thrown(r, o.error)]
                      /\ UNCHANGED indexes
                 ELSE /\ indexes' = [indexes EXCEPT ![name] = o.value]
                      /\ call' = [call EXCEPT ![c] = Returned(r, Undefined)]
    /\ UNCHANGED <<searchClients, nextUuid, before>>

\* deleteVector(p) up to its await of deleteDocuments([{ id }]).
DeleteVectorCall(c, p) ==
    /\ call[c].pc = "idle"
    /\ searchClients' = getSearchClient(searchClients, p.indexName)
    /\ call' = [call EXCEPT ![c] =
                   [IdleCall EXCEPT !.op = "deleteVector", !.params = p,
                                    !.pc = "d1.delete"]]
    /\ before' = [before EXCEPT ![c] = indexes]
    /\ UNCHANGED <<indexes, nextUuid, trace>>

\* The deleteDocuments request of deleteVector is answered.
DeleteVectorResponse(c) ==
    /\ call[c].pc = "d1.delete"
    /\ LET r    == call[c]
           name == r.params.indexName
       IN  \E o \in DeleteOutcomes(indexes[name], {r.params.id}) :
              /\ trace' = Logged(c, Entry("deleteDocuments", o,
                                          {r.params.id}, <<r.params.id>>))
              /\ IF ~o.ok
                 THEN /\ call' = [call EXCEPT ![c] = Thrown(r, o.error)]
                      /\ UNCHANGED indexes
                 ELSE /\ indexes' = [indexes EXCEPT ![name] = o.value]
                      /\ call' = [call EXCEPT ![c] = Returned(r, Undefined)]
    /\ UNCHANGED <<searchClients, nextUuid, before>>

(* ------------------------------- inputs ------------------------------- *)
\* deleteFilter of upsert: none, an OData string, or a filter object.
DeleteFilterInputs ==
    {Absent, JsStr("id eq 'a'"), JsStr("id ne 'a'"), JsObj("id eq 'a'")}

\* filter of deleteVectors and query.
FilterInputs ==
    {Absent, JsObj(Undefined), JsObj("id eq 'a'"), JsObj("id ne 'a'"),
     JsObj("id eq")}

NewMeta == [text |-> "new", source |-> "s"]

\* Upserts of n vectors of one length, with metadata for all but the last.
UpsertInputs ==
    UNION {
      { [indexName |-> name, vectors |-> [k \in 1..n |-> Vector(len, 1)],
         metadata |-> [k \in 1..(n - 1) |-> NewMeta], ids |-> ids,
         deleteFilter |-> f] :
            name \in IndexNames, len \in Dimensions,
            ids \in {Absent} \cup
                    {JsArr(a) : a \in [1..n -> ExplicitIds \cup {Undefined}]},
            f \in DeleteFilterInputs }
      : n \in 0..MaxVectors }

DeleteVectorsInputs ==
    UNION {
      { [indexName |-> name, ids |-> ids, filter |-> f] :
            name \in IndexNames,
            ids \in IF n = 0 THEN {Absent, JsArr(<<>>)}
                    ELSE {JsArr(a) : a \in [1..n -> ExplicitIds]},
            f \in IF n = 0 THEN FilterInputs ELSE {Absent} }
      : n \in 0..MaxVectors }

QueryInputs ==
    { [indexName |-> name, queryVector |-> Vector(len, 1), topK |-> k,
       filter |-> f, includeVector |-> iv] :
          name \in IndexNames, len \in Dimensions, k \in {Absent, JsNum(1)},
          f \in {Absent, JsObj("id eq 'a'")}, iv \in BOOLEAN }

(* --------------------------- specifications --------------------------- *)
\* A record stored before the modelled calls start.
OldDoc(dim) ==
    [vector |-> Vector(dim, 0), metadata |-> JSONStringify([text |-> "old"]),
     text |-> "old"]

NoIndex ==
    [exists |-> FALSE, dimension |-> 0, metric |-> "cosine",
     docs |-> [id \in {} |-> 0]]

IndexStates ==
    {NoIndex} \cup
    { [exists |-> TRUE, dimension |-> dim, metric |-> "cosine",
       docs |-> [id \in {ExistingIds[k] : k \in 1..n} |-> OldDoc(dim)]] :
          dim \in Dimensions, n \in 0..Len(ExistingIds) }

Init ==
    /\ indexes \in [IndexNames -> IndexStates]
    /\ searchClients \in SUBSET IndexNames
    /\ nextUuid = 0
    /\ call = [c \in Callers |-> IdleCall]
    /\ trace = [c \in Callers |-> <<>>]
    /\ before = [c \in Callers |-> indexes]

\* The calls a caller can make.
Calls(c) ==
    /\ call[c].pc = "idle"
    /\ \/ \E p \in UpsertInputs : UpsertCall(c, p)
       \/ \E p \in DeleteVectorsInputs : DeleteVectorsCall(c, p)
       \/ \E p \in QueryInputs : QueryCall(c, p)

\* The backend answers the request a call waits for.
Responses(c) ==
    \/ DvSearchResponse(c)
    \/ DvDeleteResponse(c)
    \/ DvBatchResponse(c)
    \/ UploadResponse(c)
    \/ QueryResponse(c)

\* One caller, one call with any input.
Next == Calls("c1") \/ Responses("c1")

Spec == Init /\ [][Next]_vars

\* Calls of two callers that run at the same time on one index: an upsert
\* of three records (two batches), a delete by ids or by filter, a query.
ConcurrentUpsertInputs ==
    { [indexName |-> "documents",
       vectors |-> [k \in 1..3 |-> Vector(DummyVectorLength, 1)],
       metadata |-> [k \in 1..3 |-> NewMeta], ids |-> ids,
       deleteFilter |-> f] :
          ids \in {Absent, JsArr(<<"a", "b", "a">>)},
          f \in {Absent, JsStr("id eq 'a'"), JsStr("id ne 'a'")} }

ConcurrentDeleteInputs ==
    { [indexName |-> "documents", ids |-> JsArr(<<"a", "b", "c">>),
       filter |-> Absent],
      [indexName |-> "documents", ids |-> Absent,
       filter |-> JsObj("id ne 'a'")] }

ConcurrentQueryInputs ==
    { [indexName |-> "documents", queryVector |-> DummyVector,
       topK |-> Absent, filter |-> Absent, includeVector |-> FALSE] }

ConcurrentCalls(c) ==
    /\ call[c].pc = "idle"
    /\ \/ \E p \in ConcurrentUpsertInputs : UpsertCall(c, p)
       \/ \E p \in ConcurrentDeleteInputs : DeleteVectorsCall(c, p)
       \/ \E p \in ConcurrentQueryInputs : QueryCall(c, p)

\* Two callers, one call each, interleaved at the awaits.
NextConcurrent ==
    \E c \in {"c1", "c2"} : ConcurrentCalls(c) \/ Responses(c)

SpecConcurrent == Init /\ [][NextConcurrent]_vars

\* The callers whose calls come before the call of c in a program that
\* awaits one call before it makes the next.
Earlier(c) ==
    CASE c = "c1" -> {}
      [] c = "c2" -> {"c1"}
      [] c = "c3" -> {"c1", "c2"}

\* c is next to call: it has not called, and every earlier call is over.
InTurn(c) ==
    /\ call[c].pc = "idle"
    /\ \A d \in Earlier(c) : call[d].pc = "done"

\* A record whose metadata payload is not JSON, written by another client.
BrokenDoc(dim, payload, text) ==
    [vector |-> Vector(dim, 0), metadata |-> [raw |-> payload], text |-> text]

\* Indexes of up to three records: "a" with metadata and text, "b" with a
\* payload that is not JSON and a text, "c" with an empty payload, no text.
RecordIndexStates ==
    {NoIndex} \cup
    { [exists |-> TRUE, dimension |-> dim, metric |-> "cosine",
       docs |-> [id \in {ExistingIds[k] : k \in 1..n} |->
                    CASE id = "a" -> OldDoc(dim)
                      [] id = "b" -> BrokenDoc(dim, "{oops", "kept")
                      [] OTHER    -> BrokenDoc(dim, "", "")]] :
          dim \in Dimensions, n \in 0..3 }

\* Metadata of an update or an upsert: with a text, without one, with an
\* empty one.
MetaInputs ==
    {[text |-> "new", source |-> "s"], [source |-> "s"],
     [text |-> "", source |-> "s"]}

UpdateInputs ==
    { [vector |-> v, metadata |-> m] :
          v \in {Absent, JsArr(Vector(DummyVectorLength, 2))},
          m \in {Absent} \cup MetaInputs }

\* updateVector with an id, a filter, both or neither.
UpdateVectorInputs ==
    { [indexName |-> "documents", id |-> id, filter |-> f, update |-> u] :
          id \in {Absent, JsStr("a"), JsStr("c")},
          f \in {Absent, JsObj("id eq 'a'"), JsObj("id ne 'a'")},
          u \in UpdateInputs }

\* Upserts of one record, or of three (two batches) where the first and
\* the third have one id; the metadata may have a property that is undefined.
RecordUpsertInputs ==
    { [indexName |-> "documents",
       vectors |-> [k \in 1..n |-> Vector(DummyVectorLength, 1)],
       metadata |-> [k \in 1..n |-> IF k = 2 THEN NewMeta ELSE m],
       ids |-> ids, deleteFilter |-> Absent] :
          n \in {1, 3},
          m \in MetaInputs \cup {[text |-> "new", note |-> Undefined]},
          ids \in {Absent, JsArr(<<"a", "b", "a">>)} }

\* deleteVectors with ids, a filter, both or neither.
RecordDeleteInputs ==
    { [indexName |-> "documents", ids |-> ids, filter |-> f] :
          ids \in {Absent, JsArr(<<>>), JsArr(<<"a">>),
                   JsArr(<<"a", "b", "c">>)},
          f \in {Absent, JsObj("id eq 'a'"), JsObj("id ne 'a'")} }

DeleteVectorInputs ==
    { [indexName |-> "documents", id |-> id] : id \in {"a", "z"} }

\* Queries that ask for every record of the index.
RecordQueryInputs ==
    { [indexName |-> "documents", queryVector |-> Vector(len, 1),
       topK |-> Absent, filter |-> Absent, includeVector |-> iv] :
          len \in Dimensions, iv \in BOOLEAN }

InitRecords ==
    /\ indexes \in [{"documents"} -> RecordIndexStates]
    /\ searchClients \in SUBSET {"documents"}
    /\ nextUuid = 0
    /\ call = [c \in Callers |-> IdleCall]
    /\ trace = [c \in Callers |-> <<>>]
    /\ before = [c \in Callers |-> indexes]

\* The first call writes records.
RecordCalls(c) ==
    /\ InTurn(c)
    /\ \/ \E p \in RecordUpsertInputs : UpsertCall(c, p)
       \/ \E p \in UpdateVectorInputs : UpdateVectorCall(c, p)
       \/ \E p \in RecordDeleteInputs : DeleteVectorsCall(c, p)
       \/ \E p \in DeleteVectorInputs : DeleteVectorCall(c, p)

\* The call after it reads them.
RecordQueries(c) ==
    /\ InTurn(c)
    /\ \E p \in RecordQueryInputs : QueryCall(c, p)

RecordResponses(c) ==
    \/ Responses(c)
    \/ UvSearchResponse(c)
    \/ UvMergeResponse(c)
    \/ DeleteVectorResponse(c)

\* A call that writes records and, when it is over, a query.
NextRecords ==
    \/ RecordCalls("c1") \/ RecordResponses("c1")
    \/ RecordQueries("c2") \/ RecordResponses("c2")

SpecRecords == InitRecords /\ [][NextRecords]_vars

LifecycleNames == {"documents", "archive"}

\* The metrics of CreateIndexParams.
Metrics == {"cosine", "euclidean", "dotproduct"}

\* Index specifications, with and without a metric.
CreateIndexInputs ==
    { [indexName |-> "documents", dimension |-> dim, metric |-> m] :
          dim \in Dimensions, m \in Metrics \cup {Undefined} }

IndexNameInputs == { [indexName |-> name] : name \in LifecycleNames }

\* An index of n records.
IndexHolding(dim, metric, n) ==
    [exists |-> TRUE, dimension |-> dim, metric |-> metric,
     docs |-> [id \in {ExistingIds[k] : k \in 1..n} |-> OldDoc(dim)]]

InitLifecycle ==
    /\ \E n \in 0..2 :
          indexes \in
            [documents : {NoIndex,
                          IndexHolding(DummyVectorLength, "euclidean", n),
                          IndexHolding(DummyVectorLength + 1, "dotProduct", 0)},
             archive   : {IndexHolding(DummyVectorLength, "cosine", 1)}]
    /\ searchClients \in SUBSET LifecycleNames
    /\ nextUuid = 0
    /\ call = [c \in Callers |-> IdleCall]
    /\ trace = [c \in Callers |-> <<>>]
    /\ before = [c \in Callers |-> indexes]

\* Calls of each record operation on the index "documents", by id and by
\* filter.
LifecycleRecordCalls(c) ==
    \/ \E n \in {1, 3} :
          UpsertCall(c, [indexName |-> "documents",
                         vectors |-> [k \in 1..n |->
                                         Vector(DummyVectorLength, 1)],
                         metadata |-> [k \in 1..n |-> NewMeta],
                         ids |-> JsArr(SubSeq(<<"a", "b", "a">>, 1, n)),
                         deleteFilter |-> Absent])
    \/ QueryCall(c, [indexName |-> "documents", queryVector |-> DummyVector,
                     topK |-> Absent, filter |-> Absent,
                     includeVector |-> FALSE])
    \/ \E id \in {Absent, JsStr("a")}, m \in {NewMeta, [source |-> "s"]} :
          UpdateVectorCall(c, [indexName |-> "documents", id |-> id,
                               filter |-> JsObj("id eq 'a'"),
                               update |-> [vector |-> Absent,
                                           metadata |-> m]])
    \/ DeleteVectorCall(c, [indexName |-> "documents", id |-> "a"])
    \/ \E ids \in {Absent, JsArr(<<"a", "b", "c">>)} :
          DeleteVectorsCall(c, [indexName |-> "documents", ids |-> ids,
                                filter |-> JsObj("id eq 'a'")])

\* The calls on an index as a whole.
IndexCalls(c) ==
    \/ \E p \in CreateIndexInputs : CreateIndexCall(c, p)
    \/ \E p \in IndexNameInputs : DeleteIndexCall(c, p)
    \/ \E p \in IndexNameInputs : DescribeIndexCall(c, p)

LifecycleResponses(c) ==
    \/ RecordResponses(c)
    \/ CreateIndexResponse(c)
    \/ DescribeGetIndexResponse(c)
    \/ DescribeCountResponse(c)
    \/ DeleteIndexResponse(c)

\* Two calls of any kind, one after the other, and then a describeIndex.
NextLifecycle ==
    \/ \E c \in {"c1", "c2"} :
          InTurn(c) /\ (IndexCalls(c) \/ LifecycleRecordCalls(c))
    \/ InTurn("c3") /\ \E p \in IndexNameInputs : DescribeIndexCall("c3", p)
    \/ \E c \in Callers : LifecycleResponses(c)

SpecLifecycle == InitLifecycle /\ [][NextLifecycle]_vars

\* A call on records or a describeIndex by one call site, and a createIndex
\* or deleteIndex by another while the first is in flight or before or
\* after it.
NextInvalidation ==
    \/ /\ call["c1"].pc = "idle"
       /\ \/ LifecycleRecordCalls("c1")
          \/ \E p \in IndexNameInputs : DescribeIndexCall("c1", p)
    \/ /\ call["c2"].pc = "idle"
       /\ \/ \E p \in CreateIndexInputs : CreateIndexCall("c2", p)
          \/ \E p \in IndexNameInputs : DeleteIndexCall("c2", p)
    \/ \E c \in {"c1", "c2"} : LifecycleResponses(c)

SpecInvalidation == InitLifecycle /\ [][NextInvalidation]_vars

(* ---------------------- the document result parser ------------------- *)
\* A JavaScript array is a function on the indexes 0..length-1; a property
\* set under a negative key is a key of the function and no element.

\* The text join puts for an element: nothing for undefined.
Joined(v) == IF v = Undefined THEN "" ELSE v

\* page.lines.map((line) => line.content).join("\n")
RECURSIVE JoinLines(_)
JoinLines(lines) ==
    IF lines = <<>> THEN ""
    ELSE IF Len(lines) = 1 THEN Joined(lines[1].content)
    ELSE Joined(lines[1].content) \o "\n" \o JoinLines(Tail(lines))

\* pages.push({ pageNumber, content, width, height })
PageContent(page) ==
    [pageNumber |-> page.pageNumber,
     content    |-> IF Truthy(page.lines) THEN JoinLines(page.lines.a) ELSE "",
     width      |-> page.width,
     height     |-> page.height]

\* A row allocated and not filled.
NewRowSparse(columnCount) == [j \in 0..(columnCount - 1) |-> Undefined]

\* new Array(table.columnCount).fill("")
NewRow(columnCount) == [j \in 0..(columnCount - 1) |-> ""]

\* for (let i = 0; i < table.rowCount; i++) cells.push(new Array(...).fill(""))
NewGrid(rowCount, columnCount) ==
    [i \in 0..(rowCount - 1) |-> NewRow(columnCount)]

\* if (rowIndex < table.rowCount && colIndex < table.columnCount)
WithinBounds(cell, table) ==
    /\ cell.rowIndex < table.rowCount
    /\ cell.columnIndex < table.columnCount

\* cell.content ?? ""
ContentOf(cell) == IF cell.content = Undefined THEN "" ELSE cell.content

\* The loop over table.cells from the cell `from` on: a cell that passes the
\* test is written with cells[rowIndex][colIndex] = ..., which throws a
\* TypeError when cells[rowIndex] is undefined.
RECURSIVE FillCells(_, _, _, _)
FillCells(grid, cells, from, table) ==
    IF from > Len(cells) THEN Ok(grid)
    ELSE LET cell == cells[from]
         IN  IF ~WithinBounds(cell, table)
             THEN FillCells(grid, cells, from + 1, table)
             ELSE IF cell.rowIndex \notin DOMAIN grid
             THEN Fail("TypeError")
             ELSE LET row == grid[cell.rowIndex]
                      written == [j \in DOMAIN row \cup {cell.columnIndex} |->
                                     IF j = cell.columnIndex
                                     THEN ContentOf(cell) ELSE row[j]]
                  IN  FillCells([grid EXCEPT ![cell.rowIndex] = written],
                                cells, from + 1, table)

\* table.boundingRegions?.[0]?.pageNumber
TablePageNumber(table) ==
    IF table.boundingRegions.t = "array" /\ Len(table.boundingRegions.a) > 0
    THEN table.boundingRegions.a[1].pageNumber ELSE Undefined

\* One pass of the loop over result.tables: the TableContent pushed, or the
\* error thrown.
TableContent(table) ==
    LET grid   == NewGrid(table.rowCount, table.columnCount)
        filled == IF Truthy(table.cells)
                  THEN FillCells(grid, table.cells.a, 1, table) ELSE Ok(grid)
    IN  IF ~filled.ok THEN filled
        ELSE Ok([rowCount    |-> table.rowCount,
                 columnCount |-> table.columnCount,
                 cells       |-> filled.value,
                 pageNumber  |-> TablePageNumber(table)])

\* A tables field that is an array also when it is empty.
TablesFieldAlways(tables) == JsArr(tables)

\* tables: tables.length > 0 ? tables : undefined
TablesField(tables) == IF Len(tables) > 0 THEN JsArr(tables) ELSE Absent

\* The loop over result.tables from the table `from` on: the tables pushed,
\* or the error that ended it.
RECURSIVE ParseTables(_, _, _)
ParseTables(done, tables, from) ==
    IF from > Len(tables) THEN Ok(done)
    ELSE LET t == TableContent(tables[from])
         IN  IF ~t.ok THEN t
             ELSE ParseTables(Append(done, t.value), tables, from + 1)

\* parseAnalyzeResult(result): the ProcessedDocument returned, or the error
\* thrown.  processedAt, the time of the call, is left out.
parseAnalyzeResult(result) ==
    LET pages  == IF Truthy(result.pages)
                  THEN [k \in DOMAIN result.pages.a |->
                           PageContent(result.pages.a[k])]
                  ELSE <<>>
        tables == IF Truthy(result.tables)
                  THEN ParseTables(<<>>, result.tables.a, 1) ELSE Ok(<<>>)
    IN  IF ~tables.ok THEN tables
        ELSE Ok([content  |-> IF result.content = Undefined THEN ""
                              ELSE result.content,
                 pages    |-> pages,
                 tables   |-> TablesField(tables.value),
                 metadata |-> [pageCount |-> IF result.pages.t = "array"
                                             THEN Len(result.pages.a) ELSE 0,
                               modelId   |-> "prebuilt-layout"]])

\* A call of parseAnalyzeResult: it has no await and is over in one step.
ParseCall(c, result) ==
    /\ call[c].pc = "idle"
    /\ LET r == [IdleCall EXCEPT !.op = "parseAnalyzeResult",
                                 !.params = result]
           o == parseAnalyzeResult(result)
       IN  call' = [call EXCEPT ![c] =
               IF o.ok THEN Returned(r, o.value) ELSE Thrown(r, o.error)]
    /\ UNCHANGED <<indexes, searchClients, nextUuid, trace, before>>

\* Cells inside and outside of a table of up to 2 by 2, and cells with
\* another content and with none.
CellInputs ==
    { [rowIndex |-> i, columnIndex |-> j, content |-> "A"] :
          i \in -1..2, j \in 0..1 }
    \cup {[rowIndex |-> 0, columnIndex |-> j, content |-> "A"] : j \in {-1, 2}}
    \cup {[rowIndex |-> 0, columnIndex |-> 0, content |-> t] :
              t \in {"B", Undefined}}

\* Tables of every size up to 2 by 2 with up to MaxCells reported cells, or
\* with no cells array.
TableInputs ==
    { [rowCount |-> rows, columnCount |-> cols, cells |-> cells,
       boundingRegions |-> Absent] :
          rows \in 0..2, cols \in 0..2,
          cells \in {Absent} \cup
                    UNION { {JsArr(a) : a \in [1..n -> CellInputs]} :
                            n \in 0..MaxCells } }

\* Pages with the numbers 0 to 2, with lines or without a lines array.
PageInputs ==
    { [pageNumber |-> n, lines |-> lines, width |-> 8, height |-> 11] :
          n \in 0..2,
          lines \in {Absent,
                     JsArr(<<[content |-> "x"], [content |-> Undefined],
                             [content |-> "y"]>>)} }

\* A table on the first page.
PlainTable ==
    [rowCount |-> 1, columnCount |-> 1,
     cells |-> JsArr(<<[rowIndex |-> 0, columnIndex |-> 0, content |-> "A"]>>),
     boundingRegions |-> JsArr(<<[pageNumber |-> 1]>>)]

\* Raw results: one page and one table of any kind, or up to MaxPages pages
\* of any kind with no tables array, no table, one table or two.
ParserInputs ==
    { [content |-> "text", pages |-> JsArr(<<CHOOSE p \in PageInputs :
                                                p.pageNumber = 1
                                                /\ p.lines # Absent>>),
       tables |-> JsArr(<<t>>)] : t \in TableInputs }
    \cup
    { [content |-> text, pages |-> pages, tables |-> tables] :
          text \in {Undefined, "text"},
          pages \in {Absent} \cup
                    UNION { {JsArr(a) : a \in [1..n -> PageInputs]} :
                            n \in 0..MaxPages },
          tables \in {Absent, JsArr(<<>>), JsArr(<<PlainTable>>),
                      JsArr(<<PlainTable, PlainTable>>)} }

InitParser ==
    /\ indexes = [name \in IndexNames |-> NoIndex]
    /\ searchClients = {}
    /\ nextUuid = 0
    /\ call = [c \in Callers |-> IdleCall]
    /\ trace = [c \in Callers |-> <<>>]
    /\ before = [c \in Callers |-> indexes]

\* One raw result is parsed.
NextParser ==
    /\ call["c1"].pc = "idle"
    /\ \E result \in ParserInputs : ParseCall("c1", result)

SpecParser == InitParser /\ [][NextParser]_vars

(* ------------------------ vocabulary of the claims -------------------- *)
IsDone(c) == call[c].pc = "done"
Succeeded(c, o) == call[c].op = o /\ IsDone(c) /\ call[c].outcome.ok
Failed(c, o) == call[c].op = o /\ IsDone(c) /\ ~call[c].outcome.ok

\* The index the call of c works on, now and when the call was made.
IndexOf(c) == indexes[call[c].params.indexName]
IndexBefore(c) == before[c][call[c].params.indexName]

\* The upload requests of the call of c that were answered, in order.
Uploads(c) == SelectSeq(trace[c], LAMBDA e : e.call = "uploadDocuments")

RECURSIVE Flatten(_)
Flatten(ss) == IF ss = <<>> THEN <<>> ELSE Head(ss) \o Flatten(Tail(ss))

Batches(entries) == [k \in DOMAIN entries |-> entries[k].batch]

Ceil(n, b) == (n + b - 1) \div b

\* Every id of the call is given by the caller.
AllExplicit(p) ==
    /\ p.ids.t = "array"
    /\ Len(p.ids.a) = Len(p.vectors)
    /\ \A k \in DOMAIN p.ids.a : p.ids.a[k] # Undefined

\* The record that the documents docs leave under the key id.
LastWith(docs, id) ==
    Stored(docs[CHOOSE k \in DOMAIN docs :
                    /\ docs[k].id = id
                    /\ \A j \in DOMAIN docs : docs[j].id = id => j <= k])

\* C1: an upsert with an explicit id for each of its N vectors returns, on
\* success, exactly those N ids in input order.
UpsertReturnsExplicitIds ==
    \A c \in Callers :
        Succeeded(c, "upsert") /\ AllExplicit(call[c].params)
            => call[c].outcome.value = call[c].params.ids.a

\* An upsert over more than one batch, with one id given twice, succeeded.
UpsertReturnsExplicitIdsWitness ==
    \E c \in Callers :
        /\ Succeeded(c, "upsert") /\ AllExplicit(call[c].params)
        /\ Len(call[c].params.vectors) > UpsertBatchSize
        /\ call[c].params.ids.a[1] = call[c].params.ids.a[3]
        /\ call[c].outcome.value = call[c].params.ids.a

\* C2: on success upsert returns one id per vector; a position with an
\* explicit id keeps it, and every other position gets a generated id that
\* is new to the index, differs from every caller-chosen id and from the id
\* at every other position, and is in no other call's documents.
UpsertGeneratesFreshIds ==
    \A c \in Callers :
        Succeeded(c, "upsert") =>
            LET p == call[c].params
                v == call[c].outcome.value
            IN  /\ Len(v) = Len(p.vectors)
                /\ \A k \in DOMAIN v :
                      IF IdAt(p.ids, k) # Undefined
                      THEN v[k] = IdAt(p.ids, k)
                      ELSE /\ v[k] \in {Uuid(n) : n \in 1..nextUuid}
                           /\ v[k] \notin ExplicitIds
                           /\ v[k] \notin DOMAIN IndexBefore(c).docs
                           /\ \A j \in DOMAIN v : j # k => v[j] # v[k]
                           /\ \A d \in Callers \ {c} :
                                 v[k] \notin Range(DocIds(call[d].documents))

\* An upsert with an id at some positions only succeeded: two positions got
\* generated ids, one kept its explicit id.
UpsertGeneratesFreshIdsWitness ==
    \E c \in Callers :
        /\ Succeeded(c, "upsert")
        /\ \E k \in DOMAIN call[c].outcome.value :
               IdAt(call[c].params.ids, k) # Undefined
        /\ Cardinality(FreshUpTo(call[c].params,
                                 Len(call[c].params.vectors))) >= 2

\* C3: the upload batches of one upsert are the consecutive slices of its
\* documents, in input order; a batch is issued only when every batch before
\* it was confirmed; the ids returned are the batches' ids concatenated.
UpsertBatchesInOrder ==
    \A c \in Callers :
        call[c].op = "upsert" =>
            LET U   == Uploads(c)
                ids == DocIds(call[c].documents)
            IN  /\ \A j \in DOMAIN U :
                      /\ U[j].batch = SubSeq(ids, (j - 1) * UpsertBatchSize + 1,
                                             Min(j * UpsertBatchSize, Len(ids)))
                      /\ j < Len(U) => U[j].ok
                /\ call[c].pc = "upload" =>
                      /\ \A j \in DOMAIN U : U[j].ok
                      /\ call[c].i = Len(U) * UpsertBatchSize
                /\ call[c].uploadedIds =
                      Flatten(Batches(SelectSeq(U, LAMBDA e : e.ok)))
                /\ Succeeded(c, "upsert") =>
                      call[c].outcome.value = Flatten(Batches(U))

\* An upsert of three batches succeeded.
UpsertBatchesInOrderWitness ==
    \E c \in Callers :
        /\ Succeeded(c, "upsert")
        /\ Len(Uploads(c)) = 3
        /\ call[c].outcome.value = Flatten(Batches(Uploads(c)))

\* C4: an upsert of N records issues ceil(N / batchSize) uploads, each of
\* batchSize records but the last, which has the rest; none for N = 0; on
\* success it returns N ids.
UpsertBatchCount ==
    \A c \in Callers :
        call[c].op = "upsert" =>
            LET U == Uploads(c)
                N == Len(call[c].params.vectors)
            IN  /\ Len(U) <= Ceil(N, UpsertBatchSize)
                /\ \A j \in DOMAIN U :
                      Len(U[j].batch) =
                         IF j * UpsertBatchSize <= N THEN UpsertBatchSize
                         ELSE N - (j - 1) * UpsertBatchSize
                /\ Succeeded(c, "upsert") =>
                      /\ Len(U) = Ceil(N, UpsertBatchSize)
                      /\ Len(call[c].outcome.value) = N

\* An upsert of batchSize + 1 records succeeded with two uploads, of
\* batchSize records and of one.
UpsertBatchCountWitness ==
    \E c \in Callers :
        /\ Succeeded(c, "upsert")
        /\ Len(call[c].params.vectors) = UpsertBatchSize + 1
        /\ Len(Uploads(c)) = 2
        /\ Len(Uploads(c)[1].batch) = UpsertBatchSize
        /\ Len(Uploads(c)[2].batch) = 1

\* The records of idx other than those with a key in ids are the records
\* old had, unchanged.
OthersAsIn(idx, old, ids) ==
    \A id \in DOMAIN idx.docs \ ids :
        id \in DOMAIN old.docs /\ idx.docs[id] = old.docs[id]

\* C5: when an upload batch of an upsert is rejected, it is the last request
\* of the call, the call throws the backend's error, and the index holds
\* exactly what the batches before it uploaded: the records of the input
\* prefix before that batch, and otherwise what it held before the uploads.
UpsertStopsAtFailedBatch ==
    \A c \in Callers :
        call[c].op = "upsert" =>
            LET U == Uploads(c)
            IN  \A j \in DOMAIN U :
                   ~U[j].ok =>
                      LET prefix == SubSeq(call[c].documents, 1,
                                           (j - 1) * UpsertBatchSize)
                          keys   == Range(DocIds(prefix))
                      IN  /\ j = Len(U)
                          /\ trace[c][Len(trace[c])] = U[j]
                          /\ IsDone(c)
                          /\ call[c].outcome = Fail(U[j].error)
                          /\ call[c].uploadedIds = DocIds(prefix)
                          /\ \A id \in keys :
                                /\ id \in DOMAIN IndexOf(c).docs
                                /\ IndexOf(c).docs[id] = LastWith(prefix, id)
                          /\ OthersAsIn(IndexOf(c), IndexBefore(c), keys)

\* The second of three batches was rejected after the first was confirmed.
UpsertStopsAtFailedBatchWitness ==
    \E c \in Callers :
        /\ Failed(c, "upsert")
        /\ Len(call[c].documents) > 2 * UpsertBatchSize
        /\ Len(Uploads(c)) = 2
        /\ Uploads(c)[1].ok /\ ~Uploads(c)[2].ok
        /\ Range(Uploads(c)[1].batch) \subseteq DOMAIN IndexOf(c).docs

\* C6: when a batch is rejected after a batch was confirmed, what the call
\* throws carries the ids confirmed so far.
UpsertErrorCarriesConfirmedIds ==
    \A c \in Callers :
        Failed(c, "upsert") /\ call[c].uploadedIds # <<>> =>
            /\ "confirmedIds" \in DOMAIN call[c].outcome
            /\ call[c].outcome["confirmedIds"] = call[c].uploadedIds

\* C7: an upsert with a deleteFilter issues no upload before its filtered
\* delete (the resolution query and, with hits, the bulk delete of them) was
\* confirmed, and issues neither after an upload; so when it succeeds every
\* record of the new set, also one that matched the filter, is in the index.
UpsertDeletesBeforeUpload ==
    \A c \in Callers :
        call[c].op = "upsert" /\ Truthy(call[c].params.deleteFilter) =>
            LET T == trace[c]
            IN  /\ \A j, k \in DOMAIN T :
                      /\ T[j].call \in {"search", "deleteDocuments"}
                      /\ T[k].call = "uploadDocuments"
                      => j < k
                /\ call[c].pc = "upload" \/ Uploads(c) # <<>> =>
                      /\ Len(T) >= 1
                      /\ T[1].call = "search" /\ T[1].ok
                      /\ T[1].ids # {} =>
                            /\ Len(T) >= 2
                            /\ T[2].call = "deleteDocuments" /\ T[2].ok
                            /\ T[2].ids = T[1].ids
                /\ Succeeded(c, "upsert") =>
                      \A id \in Range(DocIds(call[c].documents)) :
                         /\ id \in DOMAIN IndexOf(c).docs
                         /\ IndexOf(c).docs[id] =
                               LastWith(call[c].documents, id)

\* An upsert succeeded whose deleteFilter matched a record with the key of a
\* record of the new set: the old record was deleted, the new one is there.
UpsertDeletesBeforeUploadWitness ==
    \E c \in Callers :
        /\ Succeeded(c, "upsert") /\ Truthy(call[c].params.deleteFilter)
        /\ \E id \in Range(DocIds(call[c].documents)) :
              /\ id \in trace[c][1].ids
              /\ trace[c][2].call = "deleteDocuments" /\ trace[c][2].ok
              /\ id \in DOMAIN IndexOf(c).docs
              /\ IndexOf(c).docs[id] # IndexBefore(c).docs[id]

\* The upsert of c has deleted what its deleteFilter matched and has not
\* uploaded anything yet.
UpsertGap(c) ==
    /\ call[c].op = "upsert" /\ call[c].pc = "upload"
    /\ Uploads(c) = <<>>
    /\ Len(trace[c]) = 2
    /\ trace[c][2].call = "deleteDocuments" /\ trace[c][2].ok

UpsertAbortsOnDeleteFailure ==
    \A c \in Callers :
        call[c].op = "upsert" =>
            LET T == trace[c]
            IN  \A j \in DOMAIN T :
                   T[j].call \in {"search", "deleteDocuments"} /\ ~T[j].ok =>
                      /\ j = Len(T)
                      /\ IsDone(c)
                      /\ call[c].outcome = Fail(T[j].error)
                      /\ Uploads(c) = <<>>
                      /\ call[c].documents = <<>>
                      /\ OthersAsIn(IndexOf(c), IndexBefore(c), {})

\* The bulk delete of an upsert with vectors to upload was rejected.
UpsertAbortsOnDeleteFailureWitness ==
    \E c \in Callers :
        /\ Failed(c, "upsert")
        /\ Len(call[c].params.vectors) > 0
        /\ Len(trace[c]) = 2
        /\ trace[c][2].call = "deleteDocuments" /\ ~trace[c][2].ok

\* The call of c is a deleteVectors that takes the filter path.
DeletesByFilter(c) ==
    /\ call[c].op = "deleteVectors"
    /\ ~(call[c].params.ids.t = "array" /\ Len(call[c].params.ids.a) > 0)
    /\ Truthy(call[c].params.filter)

\* The keys of the records of idx that the filter object of a caller selects:
\* those its OData expression holds of, and all when it has none.
MatchedBy(idx, filter) ==
    {id \in DOMAIN idx.docs :
        filter.odata \in {Undefined, ""} \/ ODataMatches(filter.odata, id)}

\* C10: deleteVectors by filter resolves at most FilterTopK ids, all of them
\* matching, and all matching ones when there are at most FilterTopK; it
\* deletes the resolved ids and no other record; it throws only when the
\* backend rejects a request, not when more records match than it resolves.
DeleteByFilterDeletesResolved ==
    \A c \in Callers :
        DeletesByFilter(c) =>
            LET T == trace[c]
                M == MatchedBy(IndexBefore(c), call[c].params.filter)
            IN  /\ Len(T) <= 2
                /\ Len(T) >= 1 =>
                      /\ T[1].call = "search"
                      /\ T[1].ids \subseteq M
                      /\ Cardinality(T[1].ids) <= FilterTopK
                      /\ T[1].ok /\ Cardinality(M) <= FilterTopK
                            => T[1].ids = M
                /\ Len(T) = 2 =>
                      /\ T[2].call = "deleteDocuments"
                      /\ T[2].ids = T[1].ids /\ T[1].ids # {}
                /\ IsDone(c) /\ (\A j \in DOMAIN T : T[j].ok)
                      => call[c].outcome.ok
                /\ DOMAIN IndexBefore(c).docs \ M
                      \subseteq DOMAIN IndexOf(c).docs
                /\ OthersAsIn(IndexOf(c), IndexBefore(c), {})
                /\ Succeeded(c, "deleteVectors") =>
                      /\ Len(T) >= 1
                      /\ DOMAIN IndexOf(c).docs =
                            DOMAIN IndexBefore(c).docs \ T[1].ids

\* A deleteVectors whose filter matched more than FilterTopK records has
\* succeeded: FilterTopK of them are deleted, a matching record is left.
DeleteByFilterDeletesResolvedWitness ==
    \E c \in Callers :
        /\ DeletesByFilter(c) /\ Succeeded(c, "deleteVectors")
        /\ call[c].params.filter.odata \in ValidOData
        /\ Cardinality(MatchedBy(IndexBefore(c), call[c].params.filter))
              > FilterTopK
        /\ Cardinality(trace[c][2].ids) = FilterTopK
        /\ MatchedBy(IndexOf(c), call[c].params.filter) # {}

(* ------------------- filters that match no record --------------------- *)
\* The call of c resolves a filter: updateVector without an id, or
\* deleteVectors without ids, each with a filter.
ByFilter(c) ==
    LET p == call[c].params
    IN  \/ call[c].op = "updateVector" /\ ~Truthy(p.id) /\ Truthy(p.filter)
        \/ /\ call[c].op = "deleteVectors" /\ Truthy(p.filter)
           /\ ~(p.ids.t = "array" /\ Len(p.ids.a) > 0)

\* The filter-resolution query of the call of c was answered with no id.
ResolvedToNothing(c) ==
    /\ ByFilter(c)
    /\ Len(trace[c]) >= 1
    /\ trace[c][1].call = "search" /\ trace[c][1].ok
    /\ trace[c][1].ids = {}

\* C11: when the filter-resolution query of a filter-based updateVector or
\* deleteVectors returns no id, the call returns at once: the query is the
\* only request it made, no merge and no delete is issued or pending, and
\* the index is as it was when the call was made.
NoMutationOnZeroMatches ==
    \A c \in Callers :
        ResolvedToNothing(c) =>
            /\ Succeeded(c, call[c].op)
            /\ Len(trace[c]) = 1
            /\ IndexOf(c) = IndexBefore(c)

\* A filter-based updateVector on an index that holds a record found that
\* the filter matches none.
NoMutationOnZeroMatchesWitness ==
    \E c \in Callers :
        /\ ResolvedToNothing(c) /\ call[c].op = "updateVector"
        /\ call[c].params.update.metadata # Absent
        /\ DOMAIN IndexBefore(c).docs # {}
        /\ IsDone(c)

(* -------------------- neither or both of id and filter ---------------- *)
\* The call of c is an updateVector or a deleteVectors that names its
\* records in no way, or in both ways.
NeitherOrBoth(c) ==
    LET p == call[c].params
    IN  \/ call[c].op = "updateVector"
           /\ (p.id # Absent) = (p.filter # Absent)
        \/ call[c].op = "deleteVectors"
           /\ (p.ids # Absent) = (p.filter # Absent)

\* C12: an updateVector or deleteVectors call that supplies neither an id
\* (or id list) nor a filter, or that supplies both, is rejected with
\* InvalidArgument and issues no backend call.
RejectsNeitherOrBoth ==
    \A c \in Callers :
        NeitherOrBoth(c) =>
            /\ Failed(c, call[c].op)
            /\ call[c].outcome.error = "InvalidArgument"
            /\ trace[c] = <<>>

(* -------------------------- index lifecycle --------------------------- *)
\* Pairs of callers where the call of the second follows that of the first
\* with no call in between.
Consecutive == {<<"c1", "c2">>, <<"c2", "c3">>}

\* The metric of an index specification; cosine when none is given.
MetricOf(p) == IF p.metric = Undefined THEN "cosine" ELSE p.metric

\* d described the index that c had created just before.
CreatedThenDescribed(c, d) ==
    /\ Succeeded(c, "createIndex") /\ Succeeded(d, "describeIndex")
    /\ call[d].params.indexName = call[c].params.indexName

\* C13: createIndex(S) followed by describeIndex(S.name) returns the
\* dimension and the metric of S, for each metric and dimension, whether
\* or not an index of that name existed before with another specification.
DescribeReturnsCreatedSpec ==
    \A pair \in Consecutive :
        LET c == pair[1]
            d == pair[2]
        IN  CreatedThenDescribed(c, d) =>
               /\ call[d].outcome.value.dimension = call[c].params.dimension
               /\ call[d].outcome.value.metric = MetricOf(call[c].params)

\* An index of dimension 2 with the euclidean metric was created again
\* with dimension 3 and dotproduct, and described as such.
DescribeReturnsCreatedSpecWitness ==
    \E pair \in Consecutive :
        LET c == pair[1]
            d == pair[2]
            old == IndexBefore(c)
        IN  /\ CreatedThenDescribed(c, d)
            /\ old.exists /\ old.metric = "euclidean"
            /\ old.dimension = DummyVectorLength
            /\ call[c].params.metric = "dotproduct"
            /\ call[c].params.dimension = DummyVectorLength + 1
            /\ call[d].outcome.value.metric = "dotproduct"
            /\ call[d].outcome.value.dimension = DummyVectorLength + 1

\* The three calls deleteIndex, createIndex, describeIndex were made in
\* this order on one index name, and each succeeded.
DeletedCreatedDescribed ==
    /\ Succeeded("c1", "deleteIndex") /\ Succeeded("c2", "createIndex")
    /\ Succeeded("c3", "describeIndex")
    /\ call["c2"].params.indexName = call["c1"].params.indexName
    /\ call["c3"].params.indexName = call["c1"].params.indexName

\* C14: deleteIndex(name), then createIndex with a specification, then
\* describeIndex(name) yields the stats of a fresh index, count 0 with the
\* dimension and metric of the specification, whatever number of records
\* the index held.
RecreatedIndexIsFresh ==
    DeletedCreatedDescribed =>
        call["c3"].outcome.value =
            [dimension |-> call["c2"].params.dimension, count |-> 0,
             metric |-> MetricOf(call["c2"].params)]

\* An index of two records was deleted, created again with the dimension
\* and the metric it had, and described.
RecreatedIndexIsFreshWitness ==
    /\ DeletedCreatedDescribed
    /\ Cardinality(DOMAIN IndexBefore("c1").docs) = 2
    /\ call["c2"].params.dimension = IndexBefore("c1").dimension
    /\ mapMetric(MetricOf(call["c2"].params)) = IndexBefore("c1").metric
    /\ call["c3"].outcome.value.count = 0

(* ----------------------- the client-handle cache ---------------------- *)
\* In this step the createIndex or deleteIndex call of c on the index
\* `name` returns successfully.
IndexCallReturns(c, name) ==
    /\ call[c].op \in {"createIndex", "deleteIndex"}
    /\ call[c].params.indexName = name
    /\ call[c].pc # "done" /\ call'[c].pc = "done"
    /\ call'[c].outcome.ok

\* C15: when createIndex(name) or deleteIndex(name) returns successfully
\* the cache holds no handle for name and its other entries are as they
\* were; no other step of any operation removes an entry.
CacheInvalidatedOnlyByIndexCalls ==
    [][\A name \in DOMAIN indexes :
          IF \E c \in Callers : IndexCallReturns(c, name)
          THEN /\ name \notin searchClients'
               /\ searchClients' \ {name} = searchClients \ {name}
          ELSE name \in searchClients => name \in searchClients']_vars

\* describeIndex put the handle of "documents" into the cache, the
\* createIndex after it succeeded, and the cache holds the handle of
\* "archive" and none of "documents".
CacheInvalidatedOnlyByIndexCallsWitness ==
    /\ Succeeded("c1", "describeIndex")
    /\ call["c1"].params.indexName = "documents"
    /\ Succeeded("c2", "createIndex")
    /\ call["c3"].pc = "idle"
    /\ searchClients = {"archive"}

(* ------------------------- an index that is absent -------------------- *)
\* The call of c is a describeIndex or a deleteIndex, made when the backend
\* had no index of the name, and it is over.
OnAbsentIndex(c) ==
    /\ call[c].op \in {"describeIndex", "deleteIndex"}
    /\ ~IndexBefore(c).exists
    /\ IsDone(c)

\* C20: describeIndex and deleteIndex on an index the backend does not
\* have fail with the error the backend answered their one request with
\* (NotFound, when the request reached it): the error is not suppressed,
\* the request is not repeated, and no stats are returned.
AbsentIndexFailsWithNotFound ==
    \A c \in Callers :
        OnAbsentIndex(c) =>
            /\ ~call[c].outcome.ok
            /\ Len(trace[c]) = 1 /\ ~trace[c][1].ok
            /\ trace[c][1].error \in {"NotFound", "TransportFailure"}
            /\ call[c].outcome.error = trace[c][1].error

\* A describeIndex of an index that a deleteIndex had just removed failed
\* with NotFound.
AbsentIndexFailsWithNotFoundWitness ==
    \E pair \in Consecutive :
        LET c == pair[1]
            d == pair[2]
        IN  /\ Succeeded(c, "deleteIndex")
            /\ call[d].op = "describeIndex" /\ OnAbsentIndex(d)
            /\ call[d].params.indexName = call[c].params.indexName
            /\ call[d].outcome = Fail("NotFound")

(* ----------------------- metadata, written and read ------------------- *)
\* The ids of the upload batches of the call of c that the backend
\* confirmed, in order: position k holds the id of the k-th document.
ConfirmedIds(c) ==
    Flatten(Batches(SelectSeq(Uploads(c), LAMBDA e : e.ok)))

\* Position k is the last confirmed one of the upsert of c with its id.
StoredFrom(c, k) ==
    /\ k \in DOMAIN ConfirmedIds(c)
    /\ \A j \in DOMAIN ConfirmedIds(c) :
          ConfirmedIds(c)[j] = ConfirmedIds(c)[k] => j <= k

\* object[key], which is undefined for a key the object does not have.
Get(object, key) ==
    IF key \in DOMAIN object THEN object[key] ELSE Undefined

\* Every key of the metadata m reads from the result q as it reads from m.
CarriedBy(m, q) == \A key \in DOMAIN m : Get(q.metadata, key) = m[key]

\* d queried the index that c had written to just before.
WrittenThenQueried(c, d, o) ==
    /\ call[c].op = o /\ IsDone(c) /\ Succeeded(d, "query")
    /\ call[d].params.indexName = call[c].params.indexName

SameMapping(a, b) ==
    \A key \in DOMAIN a \cup DOMAIN b : Get(a, key) = Get(b, key)

\* C17: after updateVector by id with metadata M', a query that returns
\* the id yields metadata equal to M'; with no text key in M' there is no
\* text in what is returned.
UpdateByIdReplacesMetadata ==
    \A pair \in Consecutive :
        LET c == pair[1]
            d == pair[2]
            p == call[c].params
        IN  /\ WrittenThenQueried(c, d, "updateVector")
            /\ call[c].outcome.ok
            /\ Truthy(p.id) /\ p.update.metadata # Absent
            => \A q \in call[d].outcome.value :
                  q.id = p.id.s => SameMapping(q.metadata, p.update.metadata)

(* ------------------------- payloads that are not JSON ----------------- *)
\* The stored record cannot be deserialized.
Broken(doc) == "raw" \in DOMAIN doc.metadata

\* The mapping m with the text field of the record folded in.
WithText(m, doc) ==
    IF doc.text = "" THEN m
    ELSE [key \in DOMAIN m \cup {"text"} |->
             IF key = "text" THEN doc.text ELSE m[key]]

\* C18: a query whose search was answered succeeds and returns one result
\* per hit, also when payloads of hits cannot be deserialized: such a hit
\* has the empty mapping as metadata, plus text when its text field is not
\* empty, and every other hit has the metadata of its payload.
QuerySurvivesBrokenMetadata ==
    \A c \in Callers :
        /\ call[c].op = "query" /\ IsDone(c)
        /\ Len(trace[c]) = 1 /\ trace[c][1].ok
        => /\ call[c].outcome.ok
           /\ ResultIds(call[c].outcome.value) = trace[c][1].ids
           /\ Cardinality(call[c].outcome.value) =
                 Cardinality(trace[c][1].ids)
           /\ \A q \in call[c].outcome.value :
                 LET doc == IndexBefore(c).docs[q.id]
                 IN  q.metadata =
                        WithText(IF Broken(doc) THEN EmptyMeta
                                 ELSE doc.metadata.json, doc)

\* A query hit a record with metadata, one with a payload that is not JSON
\* and a text, and one with an empty payload and no text.
QuerySurvivesBrokenMetadataWitness ==
    \E c \in Callers :
        /\ Succeeded(c, "query")
        /\ {[id |-> q.id, metadata |-> q.metadata] :
                q \in call[c].outcome.value} =
           {[id |-> "a", metadata |-> [text |-> "old"]],
            [id |-> "b", metadata |-> [text |-> "kept"]],
            [id |-> "c", metadata |-> EmptyMeta]}
        /\ Broken(IndexBefore(c).docs["b"])
        /\ Broken(IndexBefore(c).docs["c"])

(* ------------------------- vectors of a wrong length ------------------ *)
\* The number of documents of the upsert of c that were sent to the
\* backend, the batch in flight included.
SentUpTo(c) ==
    IF call[c].pc = "upload"
    THEN Min(call[c].i + UpsertBatchSize, Len(call[c].documents))
    ELSE Len(Flatten(Batches(Uploads(c))))

\* C19: the adapter never sends the backend a record whose vector length
\* differs from the declared dimension of the index, and every stored
\* record has a vector of that length.
UpsertNeverSendsWrongLength ==
    \A c \in Callers :
        call[c].op = "upsert" /\ IndexBefore(c).exists =>
            /\ \A k \in 1..SentUpTo(c) :
                  Len(call[c].documents[k].vector) = IndexBefore(c).dimension
            /\ \A id \in DOMAIN IndexOf(c).docs :
                  Len(IndexOf(c).docs[id].vector) = IndexOf(c).dimension

(* ------------------------- the grids of parsed tables ----------------- *)
\* The call of c parsed a raw result and returned the document.
Parsed(c) == Succeeded(c, "parseAnalyzeResult")

\* The tables of the raw result the call of c was given, and the tables of
\* the document it returned, in order.
RawTables(c) ==
    IF Truthy(call[c].params.tables) THEN call[c].params.tables.a ELSE <<>>
ParsedTables(c) ==
    IF call[c].outcome.value.tables.t = "array"
    THEN call[c].outcome.value.tables.a ELSE <<>>

\* The reported cells of a raw table, in order.
CellsOf(table) == IF Truthy(table.cells) THEN table.cells.a ELSE <<>>

\* The cell lies inside of the declared bounds of the table.
InBounds(cell, table) ==
    /\ 0 <= cell.rowIndex /\ cell.rowIndex < table.rowCount
    /\ 0 <= cell.columnIndex /\ cell.columnIndex < table.columnCount

\* The positions in CellsOf(table) of the in-bounds cells reported for row i
\* and column j.
Writers(table, i, j) ==
    {k \in 1..Len(CellsOf(table)) :
        /\ InBounds(CellsOf(table)[k], table)
        /\ CellsOf(table)[k].rowIndex = i
        /\ CellsOf(table)[k].columnIndex = j}

\* The elements of a JavaScript array: its indexes from 0 on.
Elements(array) == {k \in DOMAIN array : k >= 0}

\* C21: for every table of the raw result, the parsed grid has exactly
\* rowCount rows of exactly columnCount strings each; no position is
\* undefined, a position no in-bounds reported cell wrote holds the empty
\* string, and a written position holds the content of the last cell
\* reported for it.
GridsFullyPopulated ==
    \A c \in Callers :
        Parsed(c) =>
            /\ Len(ParsedTables(c)) = Len(RawTables(c))
            /\ \A k \in 1..Len(RawTables(c)) :
                  LET raw  == RawTables(c)[k]
                      grid == ParsedTables(c)[k].cells
                  IN  /\ Elements(grid) = 0..(raw.rowCount - 1)
                      /\ \A i \in Elements(grid) :
                            /\ Elements(grid[i]) = 0..(raw.columnCount - 1)
                            /\ \A j \in Elements(grid[i]) :
                                  LET w == Writers(raw, i, j)
                                  IN  /\ grid[i][j] # Undefined
                                      /\ w = {} => grid[i][j] = ""
                                      /\ w # {} =>
                                            grid[i][j] = ContentOf(
                                                CellsOf(raw)[CHOOSE x \in w :
                                                    \A y \in w : y <= x])

\* A table of 2 by 2 with the one reported cell (0,0) = "A" was parsed to
\* [["A",""],["",""]].
GridsFullyPopulatedWitness ==
    \E c \in Callers :
        /\ Parsed(c)
        /\ Len(RawTables(c)) = 1
        /\ RawTables(c)[1].rowCount = 2 /\ RawTables(c)[1].columnCount = 2
        /\ CellsOf(RawTables(c)[1]) =
              <<[rowIndex |-> 0, columnIndex |-> 0, content |-> "A"]>>
        /\ LET grid == ParsedTables(c)[1].cells
           IN  /\ DOMAIN grid = {0, 1}
               /\ DOMAIN grid[0] = {0, 1} /\ DOMAIN grid[1] = {0, 1}
               /\ grid[0][0] = "A" /\ grid[0][1] = ""
               /\ grid[1][0] = "" /\ grid[1][1] = ""

(* ------------------------- cells out of bounds ------------------------ *)
\* A cell of a table of the raw result lies outside of the table's bounds.
HasCellOutOfBounds(result) ==
    /\ Truthy(result.tables)
    /\ \E k \in 1..Len(result.tables.a) :
          \E n \in 1..Len(CellsOf(result.tables.a[k])) :
              ~InBounds(CellsOf(result.tables.a[k])[n], result.tables.a[k])

\* C22: a parse of a raw result with reported cells whose rowIndex or
\* columnIndex is too large or negative completes without an error; such a
\* cell changes no grid position, and the in-bounds cells are placed.
OutOfBoundsCellsDropped ==
    \A c \in Callers :
        /\ call[c].op = "parseAnalyzeResult" /\ IsDone(c)
        /\ HasCellOutOfBounds(call[c].params)
        => /\ call[c].outcome.ok
           /\ \A k \in 1..Len(RawTables(c)) :
                 LET raw  == RawTables(c)[k]
                     grid == ParsedTables(c)[k].cells
                 IN  \A i \in 0..(raw.rowCount - 1) :
                        \A j \in 0..(raw.columnCount - 1) :
                            LET w == Writers(raw, i, j)
                            IN  grid[i][j] =
                                   IF w = {} THEN ""
                                   ELSE ContentOf(CellsOf(raw)[CHOOSE x \in w :
                                            \A y \in w : y <= x])

(* ------------------------- page numbers ------------------------------- *)
\* The pages of the document the call of c returned.
ParsedPages(c) == call[c].outcome.value.pages

\* C23: in the pages sequence of every parsed document every page number
\* is at least 1, and the page numbers never decrease along the sequence.
PageNumbersOrdered ==
    \A c \in Callers :
        Parsed(c) =>
            \A k \in 1..Len(ParsedPages(c)) :
                /\ ParsedPages(c)[k].pageNumber >= 1
                /\ k > 1 => ParsedPages(c)[k - 1].pageNumber
                               <= ParsedPages(c)[k].pageNumber

(* ------------------------- the parsed document ------------------------ *)
\* The pages of the raw result the call of c was given, in order.
RawPages(c) ==
    IF Truthy(call[c].params.pages) THEN call[c].params.pages.a ELSE <<>>

\* C24: a parsed document has one page per page of the raw result, in the
\* order of the raw result, and metadata.pageCount is the length of its
\* pages sequence; its tables field is omitted exactly when no table was
\* extracted and is never an empty sequence; absent pages, lines, tables
\* and content give no pages, an empty page content, no tables field and
\* an empty content, and a parse fails for no other reason than a reported
\* cell out of bounds.
ParsedDocumentShape ==
    \A c \in Callers :
        call[c].op = "parseAnalyzeResult" /\ IsDone(c) =>
            LET raw == call[c].params
                doc == call[c].outcome.value
            IN  /\ ~call[c].outcome.ok => HasCellOutOfBounds(raw)
                /\ call[c].outcome.ok =>
                      /\ doc.metadata.pageCount = Len(doc.pages)
                      /\ Len(doc.pages) = Len(RawPages(c))
                      /\ \A k \in 1..Len(RawPages(c)) :
                            /\ doc.pages[k].pageNumber =
                                  RawPages(c)[k].pageNumber
                            /\ RawPages(c)[k].lines = Absent =>
                                  doc.pages[k].content = ""
                            /\ RawPages(c)[k].lines # Absent =>
                                  doc.pages[k].content = "x\n\ny"
                      /\ doc.tables = Absent <=> Len(RawTables(c)) = 0
                      /\ doc.tables # Absent =>
                            /\ doc.tables.t = "array"
                            /\ Len(doc.tables.a) = Len(RawTables(c))
                            /\ Len(doc.tables.a) > 0
                      /\ doc.content =
                            (IF raw.content = Undefined THEN ""
                             ELSE raw.content)

\* A raw result without content, with an empty tables array and with two
\* pages, the second without lines, was parsed to a document of two pages
\* without a tables field.
ParsedDocumentShapeWitness ==
    \E c \in Callers :
        /\ Parsed(c)
        /\ call[c].params.content = Undefined
        /\ call[c].params.tables = JsArr(<<>>)
        /\ Len(RawPages(c)) = 2
        /\ RawPages(c)[1].lines # Absent /\ RawPages(c)[2].lines = Absent
        /\ call[c].outcome.value.tables = Absent
        /\ call[c].outcome.value.content = ""
        /\ call[c].outcome.value.metadata.pageCount = 2
        /\ call[c].outcome.value.pages[2].content = ""

(* ------------------------- the results of a query --------------------- *)
\* The most results the query of c may return: its topK, or the default.
Asked(c) ==
    IF call[c].params.topK = Absent THEN DefaultTopK
    ELSE call[c].params.topK.n

\* C25: a query returns at most topK results, at most the default number
\* when topK is not given; every returned id is the key of a record of the
\* queried index, one that satisfies the filter when one is given; a result
\* carries the record's vector when includeVector was requested and no
\* vector otherwise.
QueryReturnsAtMostTopK ==
    \A c \in Callers :
        Succeeded(c, "query") =>
            LET results == call[c].outcome.value
                idx     == IndexBefore(c)
            IN  /\ Cardinality(results) <= Asked(c)
                /\ Cardinality(ResultIds(results)) = Cardinality(results)
                /\ ResultIds(results) \subseteq DOMAIN idx.docs
                /\ call[c].params.filter # Absent =>
                      ResultIds(results) \subseteq
                          MatchedBy(idx, call[c].params.filter)
                /\ \A q \in results :
                      q.vector = IF call[c].params.includeVector
                                 THEN idx.docs[q.id].vector ELSE <<>>

\* A query without topK of an index of more records than the default
\* returned the default number of results, each with its vector.
QueryReturnsAtMostTopKWitness ==
    \E c \in Callers :
        /\ Succeeded(c, "query")
        /\ call[c].params.topK = Absent
        /\ call[c].params.includeVector
        /\ Cardinality(DOMAIN IndexBefore(c).docs) > DefaultTopK
        /\ Cardinality(call[c].outcome.value) = DefaultTopK
        /\ \A q \in call[c].outcome.value : q.vector # <<>>

(* ------------------------- the two paths of updateVector -------------- *)
\* The updateVector of c has built the documents of its merge request.
Merging(c) ==
    /\ call[c].op = "updateVector"
    /\ \/ call[c].pc = "uv.merge"
       \/ \E k \in 1..Len(trace[c]) : trace[c][k].call = "mergeDocuments"

\* C26: for one update argument, by-id and by-filter updateVector write
\* the same fields with the same values into a record; the text field of a
\* record is left untouched by both or overwritten by both.
UpdatePathsWriteSameFields ==
    \A c, d \in Callers :
        /\ Merging(c) /\ Merging(d)
        /\ call[c].params.update = call[d].params.update
        => \A x \in call[c].documents : \A y \in call[d].documents :
              /\ DOMAIN x.fields = DOMAIN y.fields
              /\ x.fields = y.fields

(* ------------------------- the neutral query vector ------------------- *)
\* The call of c resolved a filter with a query of its own: the first
\* request of a filter-based updateVector or deleteVectors, or of an upsert
\* with a deleteFilter.
ResolvedFilter(c) ==
    /\ call[c].op \in {"updateVector", "deleteVectors", "upsert"}
    /\ Len(trace[c]) >= 1
    /\ trace[c][1].call = "search"

\* C27: the zero vector of a filter-resolution query has the length of the
\* declared dimension of the index it is sent to, whatever that dimension
\* is, and the query is never rejected for a dimension mismatch.
DummyVectorFitsIndex ==
    \A c \in Callers :
        ResolvedFilter(c) /\ IndexBefore(c).exists =>
            /\ Len(DummyVector) = IndexBefore(c).dimension
            /\ trace[c][1].error # "SchemaMismatch"

(* ------------------------- deleteVectors by id list ------------------- *)
\* The call of c is a deleteVectors with a non-empty id list.
ByIdList(c) ==
    /\ call[c].op = "deleteVectors"
    /\ call[c].params.ids.t = "array"
    /\ Len(call[c].params.ids.a) > 0

\* The keys of the delete requests of c that the backend accepted.
DeletedKeys(c) ==
    UNION {trace[c][k].ids : k \in {j \in 1..Len(trace[c]) : trace[c][j].ok}}

\* C28: deleteVectors with a list of N ids issues its delete requests one
\* after the other, the k-th with the k-th slice of DeleteBatchSize ids in
\* input order; a successful call made ceil(N / DeleteBatchSize) requests
\* whose ids together are the given ids; a rejected request is the last,
\* and the call throws its error; the index loses the records of the
\* accepted requests and no other.
DeleteVectorsBatchesInOrder ==
    \A c \in Callers :
        ByIdList(c) =>
            LET ids == call[c].params.ids.a
                T   == trace[c]
            IN  /\ \A k \in DOMAIN T :
                      /\ T[k].call = "deleteDocuments"
                      /\ T[k].batch =
                            SubSeq(ids, (k - 1) * DeleteBatchSize + 1,
                                   Min(k * DeleteBatchSize, Len(ids)))
                      /\ Len(T[k].batch) \in 1..DeleteBatchSize
                      /\ k < Len(T) => T[k].ok
                      /\ ~T[k].ok => /\ IsDone(c)
                                     /\ call[c].outcome = Fail(T[k].error)
                /\ Len(T) <= Ceil(Len(ids), DeleteBatchSize)
                /\ Succeeded(c, "deleteVectors") =>
                      /\ Len(T) = Ceil(Len(ids), DeleteBatchSize)
                      /\ Flatten(Batches(T)) = ids
                      /\ DeletedKeys(c) = Range(ids)
                /\ IsDone(c) /\ Len(T) > 0 /\ T[Len(T)].ok =>
                      call[c].outcome.ok
                /\ DOMAIN IndexOf(c).docs =
                      DOMAIN IndexBefore(c).docs \ DeletedKeys(c)
                /\ OthersAsIn(IndexOf(c), IndexBefore(c), DeletedKeys(c))

\* A deleteVectors of five ids made three requests and left the other
\* records of the index where they were.
DeleteVectorsBatchesInOrderWitness ==
    \E c \in Callers :
        /\ ByIdList(c) /\ Succeeded(c, "deleteVectors")
        /\ Len(call[c].params.ids.a) = 5
        /\ Len(trace[c]) = 3
        /\ Len(trace[c][3].batch) = 1
        /\ DOMAIN IndexBefore(c).docs = {"a", "b", "c"}
        /\ DOMAIN IndexOf(c).docs = {"c"}

(* ------------------------- no request is made again ------------------- *)
\* The number of requests of one kind the call of c got answered.
Requests(c, kind) == Len(SelectSeq(trace[c], LAMBDA e : e.call = kind))

\* The number of requests of one kind that the operation of c makes when
\* it makes each of its requests once.
Needed(c, kind) ==
    CASE kind = "uploadDocuments" ->
            IF call[c].op = "upsert"
            THEN Ceil(Len(call[c].documents), UpsertBatchSize) ELSE 0
      [] kind = "deleteDocuments" ->
            IF ByIdList(c)
            THEN Ceil(Len(call[c].params.ids.a), DeleteBatchSize) ELSE 1
      [] OTHER -> 1

RequestKinds ==
    {"search", "uploadDocuments", "deleteDocuments", "mergeDocuments",
     "createOrUpdateIndex", "getIndex", "getDocumentsCount", "deleteIndex"}

\* C29: no operation makes a backend request again: of each kind it makes
\* no more requests than one pass of its code makes, a rejected request is
\* the last request of its operation, and the operation throws the error of
\* that request, unchanged.
NoRetry ==
    \A c \in Callers :
        /\ \A kind \in RequestKinds : Requests(c, kind) <= Needed(c, kind)
        /\ \A k \in 1..Len(trace[c]) :
              ~trace[c][k].ok =>
                  /\ k = Len(trace[c])
                  /\ IsDone(c)
                  /\ call[c].outcome = Fail(trace[c][k].error)

\* The second upload batch of an upsert was rejected, and the upsert threw
\* that error after two upload requests.
NoRetryWitness ==
    \E c \in Callers :
        /\ Failed(c, "upsert")
        /\ Len(trace[c]) = 2
        /\ trace[c][1].ok /\ ~trace[c][2].ok
        /\ trace[c][2].call = "uploadDocuments"
        /\ call[c].outcome.error = "TransportFailure"

(* ------------------------- one record per id -------------------------- *)
\* The keys of the records the index described by c held when c described
\* it: no other call is in flight while a call is awaited.
KeysDescribed(c) == DOMAIN IndexBefore(c).docs

\* C30: describeIndex returns as count the number of distinct ids the index
\* holds at the time of the call, whatever calls were made before; after an
\* upsert the index holds the ids it held and the upserted ids, each once,
\* and under an upserted id that existed the upserted record and not the
\* old one.
DescribeCountsDistinctIds ==
    /\ \A c \in Callers :
          Succeeded(c, "describeIndex") =>
              call[c].outcome.value.count = Cardinality(KeysDescribed(c))
    /\ \A pair \in Consecutive :
          LET c == pair[1]
              d == pair[2]
          IN  /\ Succeeded(c, "upsert") /\ Succeeded(d, "describeIndex")
              /\ call[d].params.indexName = call[c].params.indexName
              => LET ids == Range(call[c].outcome.value)
                 IN  /\ KeysDescribed(d) =
                            DOMAIN IndexBefore(c).docs \cup ids
                     /\ call[d].outcome.value.count =
                            Cardinality(DOMAIN IndexBefore(c).docs \cup ids)
                     /\ \A id \in ids :
                            IndexBefore(d).docs[id] =
                                LastWith(call[c].documents, id)

\* An upsert of the ids a, b, a into an index that held a and b was
\* followed by a describeIndex that counted two records.
DescribeCountsDistinctIdsWitness ==
    \E pair \in Consecutive :
        /\ Succeeded(pair[1], "upsert") /\ Succeeded(pair[2], "describeIndex")
        /\ call[pair[2]].params.indexName = "documents"
        /\ call[pair[1]].outcome.value = <<"a", "b", "a">>
        /\ DOMAIN IndexBefore(pair[1]).docs = {"a", "b"}
        /\ IndexBefore(pair[2]).docs["a"] # IndexBefore(pair[1]).docs["a"]
        /\ call[pair[2]].outcome.value.count = 2

(* ------------------------- handles of a dropped cache entry ----------- *)
\* In this step the call of c, having got the answer to a request, makes
\* its next request to the documents of its index.
IssuesNextRequest(c) ==
    /\ Len(trace'[c]) = Len(trace[c]) + 1
    /\ HoldsClient(call'[c])

\* C31: once a createIndex or deleteIndex of an index name has completed
\* while another operation on that index was in flight, no request that
\* the operation makes from then on goes through the SearchClient it took
\* from the cache before.
NoRequestThroughDroppedClient ==
    [][\A c \in Callers : IssuesNextRequest(c) => ~call'[c].staleClient]_vars

(* ------------------------- index calls that fail ---------------------- *)
IndexRequests == {"createOrUpdateIndex", "deleteIndex", "getIndex"}

\* In this step the createIndex, deleteIndex or describeIndex of c is made,
\* up to its request to the index service, or gets that request rejected.
IndexCallWithoutAnswer(c) ==
    /\ call'[c].op \in {"createIndex", "deleteIndex", "describeIndex"}
    /\ \/ call[c].pc = "idle" /\ call'[c].pc # "idle"
       \/ /\ Len(trace'[c]) = Len(trace[c]) + 1
          /\ trace'[c][Len(trace'[c])].call \in IndexRequests
          /\ ~trace'[c][Len(trace'[c])].ok
          /\ call'[c].outcome = Fail(trace'[c][Len(trace'[c])].error)

\* C32: an index call that fails leaves the cache of client handles as it
\* was: a createIndex or deleteIndex whose request is rejected removes no
\* handle, and a describeIndex whose getIndex is rejected adds none; none
\* of them touches the cache before its request is answered.
FailedIndexCallKeepsCache ==
    [][\A c \in Callers :
          IndexCallWithoutAnswer(c) => searchClients' = searchClients]_vars

\* A deleteIndex of "archive" was rejected and the handle of "archive" is
\* still cached; the describeIndex of "documents" after it found no index
\* and left no handle of "documents".
FailedIndexCallKeepsCacheWitness ==
    /\ Failed("c1", "deleteIndex")
    /\ call["c1"].params.indexName = "archive"
    /\ Failed("c2", "describeIndex")
    /\ call["c2"].params.indexName = "documents"
    /\ call["c2"].outcome.error = "NotFound"
    /\ Len(trace["c2"]) = 1
    /\ searchClients = {"archive"}
====
